---- MODULE Spec2Model ----
(***************************************************************************)
(* The shared discovery queue of the crawler (src/database.py) and the     *)
(* workers that drain it (src/domain_collector.py process_queue,           *)
(* src/parallel_collector.py process_batch), with the stuck-lease sweep.   *)
(*                                                                         *)
(* One queue row per URL (UNIQUE KEY unique_url); the row id is the index  *)
(* of the row in the sequence `queue` (AUTO_INCREMENT).  `clock` counts    *)
(* whole seconds; times are written in half seconds.  A TIMESTAMP column   *)
(* holds CURRENT_TIMESTAMP, the current whole second; datetime.now() has   *)
(* microsecond resolution and is later than every timestamp stored so far. *)
(* Database statements are assumed to succeed.  A SELECT ... FOR UPDATE    *)
(* holds row locks until the transaction commits; every other writer of a  *)
(* locked row waits.                                                       *)
(***************************************************************************)
EXTENDS Integers, Sequences, FiniteSets, TLC

\* ------------------------------------------------------------- bounds
MaxTime == 1
MaxThreshold == 1
MaxSweeps == 1
MaxCap == 2         \* largest max_urls_per_domain a run is configured with
MaxLinks == 2       \* most links on a fetched page
MaxLinksCfg == 2    \* largest max_links_per_page a run is configured with
MaxRules == 2       \* most rules robots.txt holds for the crawler's sections
MaxSignals == 3     \* most signals one worker process is sent
MaxQueue == 2       \* most rows of a queue filled with cleaned URLs
MaxLines == 4       \* most lines of a robots.txt that is parsed

\* ------------------------------------------------------------- configuration
\* arguments of the two programs, instantiated small
\* queue_processor.py --max-depth, --max-items
max_depth == 1
max_items == 2
\* parallel_collector.py --max-depth, --batch-size
max_depth_pc == 0
batch_size == 1
\* parallel_collector.py --workers
num_workers == 2

\* ------------------------------------------------------------- constants
NULL == -1
DefaultMaxUrlsPerDomain == 10
DefaultMaxLinksPerPage == 50
max_retries == 3            \* get_next_from_queue
force_shutdown_after == 3   \* ParallelQueueProcessor, QueueProcessor

Urls == {"a", "b"}
Priorities == {1, 2}
QP == "qp"
PC == "pc"
Workers == {QP, PC}

VARIABLES
    queue,               \* discovery_queue: sequence of rows, id = index
    clock,               \* wall clock
    pc,                  \* position of each worker
    sel,                 \* rows fetched, and locked, by the SELECT ... FOR UPDATE of a worker
    batch,               \* the list a lease returned to the worker
    idx,                 \* position of the worker in its batch
    shutdown_requested,  \* cooperative shutdown flag of each worker
    swpc,                \* position of the sweeper
    stuck,               \* stuck_ids of the running sweep
    sweeps,              \* number of sweeps that found stuck items
    returns,             \* history: the workers a row was returned to since it last became pending
    enq,                 \* history: per URL, the largest priority and smallest depth enqueued
    last,                \* history: the last enqueue call of a client of the store
    web                  \* what page processing reads and writes, one field each

vars == <<queue, clock, pc, sel, batch, idx, shutdown_requested,
          swpc, stuck, sweeps, returns, enq, last,
          web>>

\* the state of page processing, which the queue-level steps abstract
pageVars == <<web>>
history == web.history                          \* url_processing_history: one row per url
relationships == web.relationships              \* relationships written by insert_relationship
domains == web.domains                          \* domains: names of the rows of insert_domain
page == web.page                                \* the page being processed
robots == web.robots                            \* a robots.txt check: inputs and result
fetched == web.fetched                          \* history: ids whose page fetch succeeded
max_urls_per_domain == web.max_urls_per_domain  \* COLLECTION_CONFIG['max_urls_per_domain']
max_links_per_page == web.max_links_per_page    \* COLLECTION_CONFIG['max_links_per_page']
threads == web.threads                          \* collection threads a timed-out join left behind
write_discoveries == web.write_discoveries      \* parallel_collector.py: not --no-discoveries
retry_count == web.retry_count                  \* get_next_from_queue: retry_count of the running call
signal_count == web.signal_count                \* _signal_handler: self.signal_count
exit_code == web.exit_code                      \* exit code of a process that sys.exit ended
coord == web.coord                              \* run_parallel_processing: position, processes
canon == web.canon                              \* a URL being cleaned: input and results
domain_table == web.domain_table                \* domains: the row of each domain_name, with its columns
stub_target == web.stub_target                  \* per worker, the link target whose domain id it looked up
swept == web.swept                              \* history: the processes that called cleanup_agent_processing_items
NoPage == [stage |-> "none"]
NoRobots == [stage |-> "none"]
DomainNames == {"a.com", "b.com"}
NoRow == [exists |-> FALSE]
NoCanon == [stage |-> "none"]
NoTarget == "none"
NoCoord == [stage |-> "start", processes |-> <<>>, i |-> 1, signals |-> 0, continuous |-> FALSE]

\* nothing collected yet, under the given configuration
NoWeb(cap, links) ==
    [history |-> {}, relationships |-> {}, domains |-> {}, page |-> NoPage,
     robots |-> NoRobots, fetched |-> {},
     max_urls_per_domain |-> cap, max_links_per_page |-> links,
     threads |-> {}, write_discoveries |-> TRUE,
     retry_count |-> [w \in Workers |-> 0], signal_count |-> [w \in Workers |-> 0],
     exit_code |-> [w \in Workers |-> NULL], coord |-> NoCoord,
     canon |-> NoCanon,
     domain_table |-> [d \in DomainNames |-> NoRow], stub_target |-> [w \in Workers |-> NoTarget],
     swept |-> {}]

\* times, in half seconds
CURRENT_TIMESTAMP == 2 * clock
datetime_now == 2 * clock + 1
timedelta(seconds) == 2 * seconds

Range(s) == {s[i] : i \in 1..Len(s)}
Ids(q) == 1..Len(q)
GREATEST(a, b) == IF a >= b THEN a ELSE b
LEAST(a, b) == IF a <= b THEN a ELSE b

\* history: the last call of the store by its client, where a formula reads it
NoOp == [op |-> "none", id |-> 0, was |-> "none", depth |-> 0, priority |-> 0]

\* ------------------------------------------------------------- queue store
NewRow(url, depth, priority, now) ==
    [url |-> url, priority |-> priority, depth |-> depth, status |-> "pending",
     discovered_at |-> now, processed_at |-> NULL, error_message |-> "NULL"]

HasUrl(q, url) == \E i \in Ids(q) : q[i].url = url
IdOf(q, url) == CHOOSE i \in Ids(q) : q[i].url = url

\* variant: VALUES(priority), VALUES(depth) overwrite the row's
OverwriteOnDuplicate(row, depth, priority) ==
    [row EXCEPT !.priority = priority, !.depth = depth]

\* variant: the conflicting insert also puts the row back in the queue
ResetOnDuplicate(row, depth, priority) ==
    [row EXCEPT !.priority = GREATEST(row.priority, priority),
                !.depth = LEAST(row.depth, depth),
                !.status = "pending",
                !.processed_at = NULL]

OnDuplicateKeyUpdate(row, depth, priority) ==
    [row EXCEPT !.priority = GREATEST(row.priority, priority),
                !.depth = LEAST(row.depth, depth)]

\* variant: url has no unique key, every insert adds a row
InsertWithoutUniqueKey(q, url, depth, priority, now) ==
    Append(q, NewRow(url, depth, priority, now))

add_to_discovery_queue(q, url, depth, priority, now) ==
    IF HasUrl(q, url)
    THEN [q EXCEPT ![IdOf(q, url)] = OnDuplicateKeyUpdate(q[IdOf(q, url)], depth, priority)]
    ELSE Append(q, NewRow(url, depth, priority, now))

\* variant: ORDER BY priority ASC, discovered_at ASC
OrderByPriorityAsc(q, i, j) ==
    \/ q[i].priority < q[j].priority
    \/ q[i].priority = q[j].priority /\ q[i].discovered_at < q[j].discovered_at

\* ORDER BY priority DESC, discovered_at ASC: row i sorts strictly before row j
OrderBefore(q, i, j) ==
    \/ q[i].priority > q[j].priority
    \/ q[i].priority = q[j].priority /\ q[i].discovered_at < q[j].discovered_at

WherePending(q) == {i \in Ids(q) : q[i].status = "pending"}

\* the possible results of ORDER BY ... LIMIT n over the candidate rows
\* (rows that tie are returned in an order the engine chooses)
RECURSIVE OrderLimit(_, _, _)
OrderLimit(q, cand, n) ==
    IF n = 0 \/ cand = {}
    THEN {<<>>}
    ELSE LET firsts == {i \in cand : \A j \in cand : ~OrderBefore(q, j, i)}
         IN UNION {{<<i>> \o s : s \in OrderLimit(q, cand \ {i}, n - 1)} : i \in firsts}

select_query(q, limit) == OrderLimit(q, WherePending(q), limit)

\* variant: a plain SELECT, which locks no row
NoRowLock(results) == {}

\* FOR UPDATE: the rows the select locks until commit
ForUpdate(results) == Range(results)


\* variant: the UPDATE sets the status only
UpdateStatusOnly(q, ids, now) ==
    [i \in Ids(q) |-> IF i \in ids THEN [q[i] EXCEPT !.status = "processing"] ELSE q[i]]

update_query(q, ids, now) ==
    [i \in Ids(q) |-> IF i \in ids
                      THEN [q[i] EXCEPT !.status = "processing", !.processed_at = now]
                      ELSE q[i]]

mark_queue_item_completed(q, id, success, now) ==
    [q EXCEPT ![id].status = IF success THEN "completed" ELSE "failed",
              ![id].processed_at = now,
              ![id].error_message = IF success THEN "NULL" ELSE "error"]

\* variant: the UPDATE of the skip is not made
SkipLeavesRow(q, id, now) == q

mark_queue_item_skipped(q, id, now) ==
    [q EXCEPT ![id].status = "skipped",
              ![id].processed_at = now,
              ![id].error_message = "reason"]

mark_queue_item_interrupted(q, id) ==
    [q EXCEPT ![id].status = "pending",
              ![id].processed_at = NULL,
              ![id].error_message = "interrupted"]

is_url_in_queue(q, url) ==
    \E i \in Ids(q) : q[i].url = url /\ q[i].status \in {"pending", "processing"}

\* is_url_in_queue(url, exclude_id): ... AND id != exclude_id
is_url_in_queue_excl(q, url, exclude_id) ==
    \E i \in Ids(q) : /\ q[i].url = url
                       /\ q[i].status \in {"pending", "processing"}
                       /\ i # exclude_id

\* cleanup_agent_processing_items: the SELECT of the stuck items
stuck_items(q, cutoff_time) ==
    {i \in Ids(q) : /\ q[i].status = "processing"
                    /\ q[i].processed_at # NULL
                    /\ q[i].processed_at < cutoff_time}

\* variant: the UPDATE sets the status and leaves processed_at
ResetKeepsLeaseStart(q, ids) ==
    [i \in Ids(q) |-> IF i \in ids
                      THEN [q[i] EXCEPT !.status = "pending",
                                        !.error_message = "reset"]
                      ELSE q[i]]

\* cleanup_agent_processing_items: the UPDATE of the stuck ids
reset_stuck(q, ids) ==
    [i \in Ids(q) |-> IF i \in ids
                      THEN [q[i] EXCEPT !.status = "pending",
                                        !.processed_at = NULL,
                                        !.error_message = "reset"]
                      ELSE q[i]]

\* history: an enqueue of a URL that already has a row
EnqueueOp(q, url, d, p) ==
    IF HasUrl(q, url)
    THEN [op |-> "enqueue", id |-> IdOf(q, url), was |-> q[IdOf(q, url)].status,
          depth |-> d, priority |-> p]
    ELSE NoOp

\* the rows a worker's open lease transaction holds locked
LockedBy(w) == ForUpdate(sel[w])
LockedByOther(w, id) == \E o \in Workers \ {w} : id \in LockedBy(o)
Locked(id) == \E o \in Workers : id \in LockedBy(o)

\* history: a row's return count starts again when its status becomes pending
Returns(q2, q1, r) ==
    [i \in Ids(q2) |->
        IF i \notin Ids(q1) THEN <<>>
        ELSE IF q2[i].status = "pending" /\ q1[i].status # "pending" THEN <<>>
        ELSE r[i]]

Enq(e, url, depth, priority) ==
    [e EXCEPT ![url] = IF e[url].maxp = 0
                       THEN [maxp |-> priority, mind |-> depth]
                       ELSE [maxp |-> IF priority > @.maxp THEN priority ELSE @.maxp,
                             mind |-> IF depth < @.mind THEN depth ELSE @.mind]]

\* ------------------------------------------------------------- url history
\* urlparse on the URLs and hrefs of the model: scheme, netloc and path
urlparse(u) ==
    CASE u = "http://a.com/1"     -> [scheme |-> "http", netloc |-> "a.com", path |-> "/1"]
      [] u = "http://a.com/1#top" -> [scheme |-> "http", netloc |-> "a.com", path |-> "/1"]
      [] u = "http://a.com/2"     -> [scheme |-> "http", netloc |-> "a.com", path |-> "/2"]
      [] u = "http://a.com/3"     -> [scheme |-> "http", netloc |-> "a.com", path |-> "/3"]
      [] u = "http://b.com/1"     -> [scheme |-> "http", netloc |-> "b.com", path |-> "/1"]
      [] u = "http://b.com/login" -> [scheme |-> "http", netloc |-> "b.com", path |-> "/login"]
      [] u = "http://s.a.com/1"   -> [scheme |-> "http", netloc |-> "s.a.com", path |-> "/1"]
      [] u = "ftp://b.com/1"      -> [scheme |-> "ftp", netloc |-> "b.com", path |-> "/1"]
      [] u = "/1"                 -> [scheme |-> "", netloc |-> "", path |-> "/1"]
      [] OTHER                    -> [scheme |-> "", netloc |-> u, path |-> ""]

\* URLs of one host, next to the single-page hosts of Urls
CapUrls == {"http://a.com/1", "http://a.com/2", "http://a.com/3"}

\* the domain_name column of a queue entry: the host the URL was found under
domain_name(u) == urlparse(u).netloc

\* the only page _collect_relationships_and_discover fetches for a domain
HomeUrl(d) == <<"http://", d>>

\* urlparse of that URL, f"http://{domain_name}", and of no URL
BaseUrl(d) == [scheme |-> "http", netloc |-> d, path |-> ""]
NoRequest == [scheme |-> "", netloc |-> "", path |-> ""]

\* INSERT INTO url_processing_history ... ON DUPLICATE KEY UPDATE (url is unique)
record_url_processing(h, url, d, status) ==
    {r \in h : r.url # url} \cup {[url |-> url, domain_name |-> d, status |-> status]}

\* SELECT COUNT(*) FROM url_processing_history WHERE domain_name = d
get_domain_processing_count(h, d) == Cardinality({r \in h : r.domain_name = d})

\* process_queue: the domain processing limit check for the entry's domain
LimitReached(u) ==
    get_domain_processing_count(history, domain_name(u)) >= max_urls_per_domain

\* ------------------------------------------------------------- initial state
\* the queue, the workers and the sweeper after start-up
InitQueue ==
    /\ queue = <<>>
    /\ clock = 0
    /\ pc = [w \in Workers |-> "start"]
    /\ sel = [w \in Workers |-> <<>>]
    /\ batch = [w \in Workers |-> <<>>]
    /\ idx = [w \in Workers |-> 1]
    /\ shutdown_requested = [w \in Workers |-> FALSE]
    /\ swpc = "idle"
    /\ stuck = {}
    /\ sweeps = 0
    /\ returns = <<>>
    /\ enq = [u \in Urls |-> [maxp |-> 0, mind |-> 0]]
    /\ last = NoOp

Init ==
    /\ InitQueue
    /\ web = NoWeb(DefaultMaxUrlsPerDomain, DefaultMaxLinksPerPage)

\* ------------------------------------------------------------- enqueue
\* add_to_discovery_queue called by a client of the store with any arguments
Enqueue(u, d, p) ==
    /\ UNCHANGED pageVars
    /\ HasUrl(queue, u) => ~Locked(IdOf(queue, u))
    /\ queue' = add_to_discovery_queue(queue, u, d, p, CURRENT_TIMESTAMP)
    /\ returns' = Returns(queue', queue, returns)
    /\ enq' = Enq(enq, u, d, p)
    /\ last' = EnqueueOp(queue, u, d, p)
    /\ UNCHANGED <<clock, pc, sel, batch, idx, shutdown_requested,
                   swpc, stuck, sweeps>>

\* add_seed_domains: one seed URL at depth 0 with the default priority
AddSeed(u) ==
    /\ UNCHANGED pageVars
    /\ HasUrl(queue, u) => ~Locked(IdOf(queue, u))
    /\ queue' = add_to_discovery_queue(queue, u, 0, 1, CURRENT_TIMESTAMP)
    /\ returns' = Returns(queue', queue, returns)
    /\ enq' = Enq(enq, u, 0, 1)
    /\ last' = NoOp
    /\ UNCHANGED <<clock, pc, sel, batch, idx, shutdown_requested,
                   swpc, stuck, sweeps>>

\* ------------------------------------------------------------- environment
Tick ==
    /\ UNCHANGED pageVars
    /\ clock < MaxTime
    /\ clock' = clock + 1
    /\ last' = NoOp
    /\ UNCHANGED <<queue, pc, sel, batch, idx, shutdown_requested,
                   swpc, stuck, sweeps, returns, enq>>

Live(w) == pc[w] \notin {"done", "crashed"}

\* _signal_handler: the first signal raises the cooperative shutdown flag
Signal(w) ==
    /\ UNCHANGED pageVars
    /\ Live(w)
    /\ ~shutdown_requested[w]
    /\ shutdown_requested' = [shutdown_requested EXCEPT ![w] = TRUE]
    /\ last' = NoOp
    /\ UNCHANGED <<queue, clock, pc, sel, batch, idx,
                   swpc, stuck, sweeps, returns, enq>>

\* the worker process is killed; the server rolls its open transaction back;
\* batch from idx on keeps the items the process leaves unmarked
Crash(w) ==
    /\ UNCHANGED pageVars
    /\ Live(w)
    /\ pc' = [pc EXCEPT ![w] = "crashed"]
    /\ sel' = [sel EXCEPT ![w] = <<>>]
    /\ idx' = [idx EXCEPT ![w] = IF pc[w] = "discoveries" THEN @ + 1 ELSE @]
    /\ last' = NoOp
    /\ UNCHANGED <<queue, clock, batch, shutdown_requested,
                   swpc, stuck, sweeps, returns, enq>>

\* ------------------------------------------------------------- lease
Limit(w) == IF w = QP THEN max_items ELSE batch_size

\* top of the worker loop: shutdown check of process_queue / run_continuous
StopAtTop(w) ==
    /\ UNCHANGED pageVars
    /\ pc[w] = "start"
    /\ shutdown_requested[w]
    /\ pc' = [pc EXCEPT ![w] = "done"]
    /\ last' = NoOp
    /\ UNCHANGED <<queue, clock, sel, batch, idx, shutdown_requested,
                   swpc, stuck, sweeps, returns, enq>>

\* get_next_from_queue starts an attempt: called at the top of the worker
\* loop, or in its retry loop after an attempt failed
AtLease(w) == (pc[w] = "start" /\ ~shutdown_requested[w]) \/ pc[w] = "retry"

\* retry_count at an attempt: 0 when the call starts
Failures(w) == IF pc[w] = "retry" THEN retry_count[w] ELSE 0

\* get_next_from_queue, first statement: SELECT ... FOR UPDATE
LeaseSelect(w, limit) ==
    /\ web' = [web EXCEPT !.retry_count[w] = Failures(w)]
    /\ AtLease(w)
    /\ \E results \in select_query(queue, limit) :
          /\ \A i \in Range(results) : ~LockedByOther(w, i)
          /\ sel' = [sel EXCEPT ![w] = results]
    /\ pc' = [pc EXCEPT ![w] = "selected"]
    /\ last' = NoOp
    /\ UNCHANGED <<queue, clock, batch, idx, shutdown_requested,
                   swpc, stuck, sweeps, returns, enq>>

Item(q, i) == [id |-> i, url |-> q[i].url, depth |-> q[i].depth]

\* get_next_from_queue, second statement: UPDATE, commit and return
LeaseCommit(w) ==
    /\ UNCHANGED pageVars
    /\ pc[w] = "selected"
    /\ \A i \in Range(sel[w]) : ~LockedByOther(w, i)
    /\ queue' = update_query(queue, Range(sel[w]), CURRENT_TIMESTAMP)
    /\ returns' = [i \in Ids(queue) |->
                      IF i \in Range(sel[w]) /\ Len(returns[i]) < 2
                      THEN Append(returns[i], w) ELSE returns[i]]
    /\ batch' = [batch EXCEPT ![w] = [k \in 1..Len(sel[w]) |-> Item(queue, sel[w][k])]]
    /\ idx' = [idx EXCEPT ![w] = 1]
    /\ sel' = [sel EXCEPT ![w] = <<>>]
    /\ pc' = [pc EXCEPT ![w] =
                IF sel[w] # <<>> THEN "loop" ELSE IF w = QP THEN "done" ELSE "start"]
    /\ last' = NoOp
    /\ UNCHANGED <<clock, shutdown_requested, swpc, stuck, sweeps, enq>>

\* ------------------------------------------------------------- batch loop
Cur(w) == batch[w][idx[w]]
InLoop(w) == pc[w] = "loop" /\ idx[w] <= Len(batch[w])

WorkerFrame == UNCHANGED <<clock, sel, shutdown_requested,
                           swpc, stuck, sweeps, pageVars>>

\* the for loop over the batch is exhausted: lease again
FinishBatch(w) ==
    /\ pc[w] = "loop"
    /\ idx[w] > Len(batch[w])
    /\ pc' = [pc EXCEPT ![w] = "start"]
    /\ batch' = [batch EXCEPT ![w] = <<>>]
    /\ idx' = [idx EXCEPT ![w] = 1]
    /\ last' = NoOp
    /\ UNCHANGED <<queue, returns, enq>>
    /\ WorkerFrame

\* shutdown check before an item: process_queue returns, process_batch breaks
StopBatch(w) ==
    /\ InLoop(w)
    /\ shutdown_requested[w]
    /\ pc' = [pc EXCEPT ![w] = "done"]
    /\ batch' = [batch EXCEPT ![w] = <<>>]
    /\ idx' = [idx EXCEPT ![w] = 1]
    /\ last' = NoOp
    /\ UNCHANGED <<queue, returns, enq>>
    /\ WorkerFrame

\* process_queue: depth >= max_depth is marked skipped
SkipDepthQP(w) ==
    /\ w = QP
    /\ InLoop(w)
    /\ ~shutdown_requested[w]
    /\ Cur(w).depth >= max_depth
    /\ ~LockedByOther(w, Cur(w).id)
    /\ queue' = mark_queue_item_skipped(queue, Cur(w).id, CURRENT_TIMESTAMP)
    /\ returns' = Returns(queue', queue, returns)
    /\ idx' = [idx EXCEPT ![w] = @ + 1]
    /\ last' = NoOp
    /\ UNCHANGED <<pc, batch, enq>>
    /\ WorkerFrame

\* process_batch: depth > max_depth continues with the next item
SkipDepthPC(w) ==
    /\ w = PC
    /\ InLoop(w)
    /\ ~shutdown_requested[w]
    /\ Cur(w).depth > max_depth_pc
    /\ idx' = [idx EXCEPT ![w] = @ + 1]
    /\ last' = NoOp
    /\ UNCHANGED <<queue, pc, batch, returns, enq>>
    /\ WorkerFrame

\* variant: no depth test before the fetch
DepthAny(w) == TRUE

DepthOk(w) == IF w = QP THEN Cur(w).depth < max_depth ELSE Cur(w).depth <= max_depth_pc

\* collect_domain_data is entered for the current item
StartCollect(w) ==
    /\ InLoop(w)
    /\ ~shutdown_requested[w]
    /\ DepthOk(w)
    /\ w = QP => ~LimitReached(Cur(w).url)
    /\ pc' = [pc EXCEPT ![w] = "collecting"]
    /\ last' = NoOp
    /\ UNCHANGED <<queue, batch, idx, returns, enq>>
    /\ WorkerFrame

\* collect_domain_data: add_discovered_urls_to_queue for one discovered URL
Discover(w, u) ==
    /\ pc[w] = "collecting"
    /\ ~is_url_in_queue(queue, u)
    /\ HasUrl(queue, u) => ~Locked(IdOf(queue, u))
    /\ queue' = add_to_discovery_queue(queue, u, Cur(w).depth + 1, 1, CURRENT_TIMESTAMP)
    /\ returns' = Returns(queue', queue, returns)
    /\ enq' = Enq(enq, u, Cur(w).depth + 1, 1)
    /\ last' = NoOp
    /\ UNCHANGED <<pc, batch, idx>>
    /\ WorkerFrame

Mark(w, q2, opname, nextpc) ==
    /\ ~LockedByOther(w, Cur(w).id)
    /\ queue' = q2
    /\ returns' = Returns(queue', queue, returns)
    /\ last' = NoOp
    /\ pc' = [pc EXCEPT ![w] = nextpc]
    /\ idx' = [idx EXCEPT ![w] = IF nextpc = "loop" THEN @ + 1 ELSE @]
    /\ UNCHANGED <<batch, enq>>
    /\ WorkerFrame

\* collect_domain_data returns its result: the item is marked completed
CollectOk(w) ==
    /\ pc[w] = "collecting"
    /\ Mark(w, mark_queue_item_completed(queue, Cur(w).id, TRUE, CURRENT_TIMESTAMP), "complete",
            IF w = PC THEN "discoveries" ELSE "loop")

\* collect_domain_data sees shutdown_check() and returns (None, []) early
CollectEarly(w) ==
    /\ pc[w] = "collecting"
    /\ shutdown_requested[w]
    /\ Mark(w, mark_queue_item_completed(queue, Cur(w).id, TRUE, CURRENT_TIMESTAMP), "early", "loop")

\* collect_domain_data raises: the item is marked failed
CollectError(w) ==
    /\ pc[w] = "collecting"
    /\ w = PC => ~shutdown_requested[w]
    /\ Mark(w, mark_queue_item_completed(queue, Cur(w).id, FALSE, CURRENT_TIMESTAMP), "fail", "loop")

\* process_batch: an exception under shutdown is re-raised as KeyboardInterrupt,
\* which no handler of process_batch catches
CollectErrorShutdownPC(w) ==
    /\ w = PC
    /\ pc[w] = "collecting"
    /\ shutdown_requested[w]
    /\ pc' = [pc EXCEPT ![w] = "done"]
    /\ batch' = [batch EXCEPT ![w] = <<>>]
    /\ idx' = [idx EXCEPT ![w] = 1]
    /\ last' = NoOp
    /\ UNCHANGED <<queue, returns, enq>>
    /\ WorkerFrame

\* process_batch: the collection thread outlives the 300 s join
CollectTimeoutPC(w) ==
    /\ w = PC
    /\ pc[w] = "collecting"
    /\ Mark(w, mark_queue_item_completed(queue, Cur(w).id, FALSE, CURRENT_TIMESTAMP), "timeout", "loop")

\* process_batch: discoveries written, request delay, next item
NextItemPC(w) ==
    /\ pc[w] = "discoveries"
    /\ pc' = [pc EXCEPT ![w] = "loop"]
    /\ idx' = [idx EXCEPT ![w] = @ + 1]
    /\ last' = NoOp
    /\ UNCHANGED <<queue, batch, returns, enq>>
    /\ WorkerFrame

\* ------------------------------------------------------------- sweep
Thresholds == 0..MaxThreshold

\* cleanup_agent_processing_items: SELECT the stuck items; none: return 0
SweepSelect(T) ==
    /\ UNCHANGED pageVars
    /\ swpc = "idle"
    /\ UNCHANGED <<queue, clock, pc, sel, batch, idx, shutdown_requested,
                   returns, enq>>
    /\ LET cutoff_time == datetime_now - timedelta(T)
           found == stuck_items(queue, cutoff_time)
       IN IF found = {}
          THEN /\ last' = NoOp
               /\ UNCHANGED <<swpc, stuck, sweeps>>
          ELSE /\ sweeps < MaxSweeps
               /\ sweeps' = sweeps + 1
               /\ swpc' = "selected"
               /\ stuck' = found
               /\ last' = NoOp

\* cleanup_agent_processing_items: UPDATE the stuck ids, commit and return
SweepUpdate ==
    /\ UNCHANGED pageVars
    /\ swpc = "selected"
    /\ \A i \in stuck : ~Locked(i)
    /\ queue' = reset_stuck(queue, stuck)
    /\ returns' = Returns(queue', queue, returns)
    /\ swpc' = "idle"
    /\ stuck' = {}
    /\ last' = NoOp
    /\ UNCHANGED <<clock, pc, sel, batch, idx, shutdown_requested, sweeps, enq>>

\* ------------------------------------------------------------- specification
Next ==
    \/ \E u \in Urls : AddSeed(u)
    \/ Tick
    \/ \E w \in Workers : Signal(w)
    \/ \E w \in Workers : Crash(w)
    \/ \E w \in Workers : StopAtTop(w)
    \/ \E w \in Workers : LeaseSelect(w, Limit(w))
    \/ \E w \in Workers : LeaseCommit(w)
    \/ \E w \in Workers : FinishBatch(w)
    \/ \E w \in Workers : StopBatch(w)
    \/ \E w \in Workers : SkipDepthQP(w)
    \/ \E w \in Workers : SkipDepthPC(w)
    \/ \E w \in Workers : StartCollect(w)
    \/ \E w \in Workers, u \in Urls : Discover(w, u)
    \/ \E w \in Workers : CollectOk(w)
    \/ \E w \in Workers : CollectEarly(w)
    \/ \E w \in Workers : CollectError(w)
    \/ \E w \in Workers : CollectErrorShutdownPC(w)
    \/ \E w \in Workers : CollectTimeoutPC(w)
    \/ \E w \in Workers : NextItemPC(w)
    \/ \E T \in Thresholds : SweepSelect(T)
    \/ SweepUpdate

Spec == Init /\ [][Next]_vars

\* the queue store driven by one client that passes any arguments
Depths == {0, 1}

NextStore ==
    \/ \E u \in Urls, d \in Depths, p \in Priorities : Enqueue(u, d, p)
    \/ Tick
    \/ \E limit \in 1..max_items : LeaseSelect(QP, limit)
    \/ LeaseCommit(QP)
    \/ FinishBatch(QP)
    \/ SkipDepthQP(QP)
    \/ StartCollect(QP)
    \/ CollectOk(QP)
    \/ CollectError(QP)

SpecStore == Init /\ [][NextStore]_vars

\* the workers and the sweep while no signal arrives and no process is killed:
\* every statement that writes a queue row
NextRun ==
    \/ \E u \in Urls : AddSeed(u)
    \/ Tick
    \/ \E w \in Workers : LeaseSelect(w, Limit(w))
    \/ \E w \in Workers : LeaseCommit(w)
    \/ \E w \in Workers : FinishBatch(w)
    \/ \E w \in Workers : SkipDepthQP(w)
    \/ \E w \in Workers : SkipDepthPC(w)
    \/ \E w \in Workers : StartCollect(w)
    \/ \E w \in Workers, u \in Urls : Discover(w, u)
    \/ \E w \in Workers : CollectOk(w)
    \/ \E w \in Workers : CollectError(w)
    \/ \E w \in Workers : CollectTimeoutPC(w)
    \/ \E w \in Workers : NextItemPC(w)
    \/ \E T \in Thresholds : SweepSelect(T)
    \/ SweepUpdate

SpecRun == Init /\ [][NextRun]_vars

\* one process_batch worker and the sweep, no signal and no kill
NextSweep ==
    \/ \E u \in Urls : AddSeed(u)
    \/ Tick
    \/ LeaseSelect(PC, Limit(PC))
    \/ LeaseCommit(PC)
    \/ FinishBatch(PC)
    \/ SkipDepthPC(PC)
    \/ StartCollect(PC)
    \/ \E u \in Urls : Discover(PC, u)
    \/ CollectOk(PC)
    \/ CollectError(PC)
    \/ CollectTimeoutPC(PC)
    \/ NextItemPC(PC)
    \/ \E T \in Thresholds : SweepSelect(T)
    \/ SweepUpdate

SpecSweep == Init /\ [][NextSweep]_vars

TypeOK ==
    /\ \A i \in Ids(queue) :
          /\ queue[i].url \in Urls \/ urlparse(queue[i].url).path # ""
          /\ queue[i].status \in {"pending", "processing", "completed", "failed", "skipped"}
    /\ clock \in 0..MaxTime
    /\ \A i \in Ids(queue) : queue[i].status \in {"pending"} => queue[i].processed_at = NULL
    /\ \A w \in Workers : idx[w] \in 1..(Len(batch[w]) + 1)


\* ------------------------------------------------------------- properties

Holds(w, i) ==
    /\ pc[w] \in {"loop", "collecting", "discoveries"}
    /\ \E k \in (IF pc[w] = "discoveries" THEN idx[w] + 1 ELSE idx[w])..Len(batch[w]) :
          batch[w][k].id = i

\* C2: in every reachable state each URL has at most one queue row and at most
\* one worker holds that row as leased and not yet marked
C2_OneRowOneHolder ==
    /\ \A i, j \in Ids(queue) : queue[i].url = queue[j].url => i = j
    /\ \A i \in Ids(queue) : Cardinality({w \in Workers : Holds(w, i)}) <= 1

\* C3: every status change of a row is pending to processing by a lease,
\* processing to completed, failed or skipped, or processing to pending by a
\* sweep; a completed, failed or skipped row never changes status again
C3_StatusTransitions ==
    [][\A i \in Ids(queue) :
          queue'[i].status # queue[i].status =>
             \/ /\ queue[i].status = "pending"
                /\ queue'[i].status = "processing"
                /\ \E w \in Workers : LeaseCommit(w)
             \/ /\ queue[i].status = "processing"
                /\ queue'[i].status \in {"completed", "failed", "skipped"}
             \/ /\ queue[i].status = "processing"
                /\ queue'[i].status = "pending"
                /\ SweepUpdate]_vars

\* a step in which worker w calls mark_queue_item_completed or _skipped
MarkStep(w) ==
    \/ SkipDepthQP(w)
    \/ CollectOk(w)
    \/ CollectEarly(w)
    \/ CollectError(w)
    \/ CollectTimeoutPC(w)

\* C4: a mark applied to a row whose status is not processing is a no-op: the
\* row's status, processed_at and error_message are unchanged
C4_MarkIsNoOpUnlessProcessing ==
    [][\A w \in Workers :
          MarkStep(w) /\ queue[Cur(w).id].status # "processing" =>
             /\ queue'[Cur(w).id].status = queue[Cur(w).id].status
             /\ queue'[Cur(w).id].processed_at = queue[Cur(w).id].processed_at
             /\ queue'[Cur(w).id].error_message = queue[Cur(w).id].error_message]_vars


\* row i sorts strictly before row j: higher priority, or the same priority
\* and discovered earlier
SortsFirst(q, i, j) ==
    \/ q[j].priority < q[i].priority
    \/ q[j].priority = q[i].priority /\ q[j].discovered_at > q[i].discovered_at

Min(a, b) == IF a < b THEN a ELSE b

\* res is the first min(n, number of pending) pending rows of q in the order
IsFirstN(q, res, n) ==
    LET pending == {i \in Ids(q) : q[i].status = "pending"}
    IN /\ Len(res) = Min(n, Cardinality(pending))
       /\ Range(res) \subseteq pending
       /\ \A j, k \in 1..Len(res) : j < k =>
             res[j] # res[k] /\ ~SortsFirst(q, res[k], res[j])
       /\ \A i \in pending \ Range(res) : \A k \in 1..Len(res) :
             ~SortsFirst(q, i, res[k])

\* C5: get_next_from_queue(n) returns at most n entries, exactly the first
\* min(n, number of pending) pending rows by priority descending then
\* discovered_at ascending; on return each is processing with processed_at
\* set, and no other row changed
C5_LeaseFirstN ==
    [][/\ \A n \in 1..max_items :
             LeaseSelect(QP, n) => Len(sel'[QP]) <= n /\ IsFirstN(queue, sel'[QP], n)
       /\ LeaseCommit(QP) =>
             /\ Len(queue') = Len(queue)
             /\ Len(batch'[QP]) = Len(sel[QP])
             /\ \A k \in 1..Len(sel[QP]) : batch'[QP][k].id = sel[QP][k]
             /\ \A i \in Ids(queue) :
                   IF i \in Range(sel[QP])
                   THEN /\ queue[i].status = "pending"
                        /\ queue'[i] = [queue[i] EXCEPT !.status = "processing",
                                                        !.processed_at = CURRENT_TIMESTAMP]
                        /\ queue'[i].processed_at # NULL
                   ELSE queue'[i] = queue[i]]_vars

\* a lease of one row has returned the later-inserted row of higher priority
\* and left the earlier row pending
C5_LimitAndOrder ==
    /\ pc[QP] = "loop" /\ idx[QP] = 1 /\ Len(batch[QP]) = 1
    /\ queue[batch[QP][1].id].status = "processing"
    /\ \E i \in Ids(queue) :
          /\ i < batch[QP][1].id
          /\ queue[i].status = "pending"
          /\ queue[i].priority < queue[batch[QP][1].id].priority
          /\ queue[i].discovered_at < queue[batch[QP][1].id].discovered_at

\* C6: after any sequence of add_to_discovery_queue calls for a URL the row
\* has the largest priority and the smallest depth of the calls, whatever
\* their order; priority never decreases and depth never increases
C6_PriorityMaxDepthMin ==
    [][/\ \A i \in Ids(queue') :
             /\ queue'[i].priority = enq'[queue'[i].url].maxp
             /\ queue'[i].depth = enq'[queue'[i].url].mind
       /\ \A i \in Ids(queue) :
             /\ queue'[i].priority >= queue[i].priority
             /\ queue'[i].depth <= queue[i].depth]_vars

\* a URL was enqueued again with a lower priority and a larger depth than its row has
C6_LowerCallKeptRow ==
    /\ last.op = "enqueue"
    /\ last.priority < queue[last.id].priority
    /\ last.depth > queue[last.id].depth

\* C7: add_to_discovery_queue for a URL that has a row leaves the row's
\* status, processed_at, error_message and discovered_at unchanged, whatever
\* the status
C7_EnqueueKeepsLifecycle ==
    [][last'.op = "enqueue" =>
          LET i == last'.id
          IN /\ queue[i].status = last'.was
             /\ queue'[i].status = queue[i].status
             /\ queue'[i].processed_at = queue[i].processed_at
             /\ queue'[i].error_message = queue[i].error_message
             /\ queue'[i].discovered_at = queue[i].discovered_at]_vars

\* a failed row was enqueued again, with a higher priority, after the clock moved
C7_ReenqueuedFailedRow ==
    /\ last.op = "enqueue"
    /\ last.was = "failed"
    /\ queue[last.id].status = "failed"
    /\ queue[last.id].priority = last.priority
    /\ last.priority > 1
    /\ queue[last.id].discovered_at < CURRENT_TIMESTAMP


\* the rows in processing whose lease started more than T seconds before now
Stale(q, T) ==
    {i \in Ids(q) : /\ q[i].status = "processing"
                    /\ q[i].processed_at # NULL
                    /\ q[i].processed_at + timedelta(T) < datetime_now}

CrashedHolding(w, i) ==
    /\ pc[w] = "crashed"
    /\ \E k \in idx[w]..Len(batch[w]) : batch[w][k].id = i
    /\ queue[i].status = "processing"
    /\ returns[i] = <<w>>

\* C9: an entry leased by a worker that crashed without marking it stays in
\* processing until a sweep; a sweep with threshold 0 selects it and returns
\* it to pending
C9_CrashedLeaseStaysUntilSweep ==
    [][\A w \in Workers : \A i \in Ids(queue) :
          CrashedHolding(w, i) =>
             /\ queue'[i].status = "processing" \/ SweepUpdate
             /\ SweepSelect(0) => i \in stuck'
             /\ SweepUpdate /\ i \in stuck => queue'[i].status = "pending"]_vars

\* C10: when collect_domain_data sees the shutdown flag and returns early, the
\* entry ends in pending, not in completed or failed
C10_EarlyReturnLeavesPending ==
    [][\A w \in Workers :
          CollectEarly(w) => queue'[Cur(w).id].status = "pending"]_vars


\* C11: when a worker that is not killed finishes its batch or exits after a
\* cooperative shutdown, none of the entries it leased is still in the
\* processing state its lease put it in
C11_LeasedEntriesLeaveProcessing ==
    [][\A w \in Workers :
          pc[w] \in {"loop", "collecting"} /\ pc'[w] \in {"start", "done"} =>
             \A k \in 1..Len(batch[w]) :
                ~ /\ queue'[batch[w][k].id].status = "processing"
                  /\ returns'[batch[w][k].id] = <<w>>]_vars

\* the --max-depth argument of worker w's program
MaxDepthOf(w) == IF w = QP THEN max_depth ELSE max_depth_pc

\* worker w takes the next item of its batch: depth test, then skip or fetch
TakesItem(w) ==
    /\ InLoop(w)
    /\ ~shutdown_requested[w]
    /\ pc'[w] \in {"loop", "collecting"}
    /\ idx'[w] = idx[w] + 1 \/ pc'[w] = "collecting"

\* C12: in process_queue and process_batch a leased entry is marked skipped
\* for max depth, without a fetch, if and only if its depth is greater than
\* max depth
C12_SkippedIffDeeperThanMax ==
    [][\A w \in Workers :
          TakesItem(w) =>
             LET id == Cur(w).id
                 skipped == /\ pc'[w] = "loop"
                            /\ queue'[id] = mark_queue_item_skipped(queue, id, CURRENT_TIMESTAMP)[id]
             IN skipped <=> Cur(w).depth > MaxDepthOf(w)]_vars

\* ------------------------------------------------------------- domain limit
\* a URL of the host a.com is put on the queue at the given depth
AddDomainUrl(u, depth) ==
    /\ ~HasUrl(queue, u)
    /\ queue' = add_to_discovery_queue(queue, u, depth, 1, CURRENT_TIMESTAMP)
    /\ returns' = Returns(queue', queue, returns)
    /\ last' = NoOp
    /\ UNCHANGED <<clock, pc, sel, batch, idx, shutdown_requested,
                   swpc, stuck, sweeps, enq, pageVars>>

\* process_queue: the domain's history count has reached the limit
SkipDomainLimit(w) ==
    /\ w = QP
    /\ InLoop(w)
    /\ ~shutdown_requested[w]
    /\ DepthOk(w)
    /\ LimitReached(Cur(w).url)
    /\ Mark(w, mark_queue_item_skipped(queue, Cur(w).id, CURRENT_TIMESTAMP), "skip", "loop")

\* collect_domain_data fetches http://<domain>, records the outcome in the
\* history and returns normally; process_queue marks the entry completed
CollectPage(w, status) ==
    /\ w = QP
    /\ pc[w] = "collecting"
    /\ ~LockedByOther(w, Cur(w).id)
    /\ web' = [web EXCEPT
                 !.history = record_url_processing(@, HomeUrl(domain_name(Cur(w).url)),
                                                   domain_name(Cur(w).url), status),
                 !.fetched = IF status = "success" THEN @ \cup {Cur(w).id} ELSE @]
    /\ queue' = mark_queue_item_completed(queue, Cur(w).id, TRUE, CURRENT_TIMESTAMP)
    /\ returns' = Returns(queue', queue, returns)
    /\ pc' = [pc EXCEPT ![w] = "loop"]
    /\ idx' = [idx EXCEPT ![w] = @ + 1]
    /\ last' = NoOp
    /\ UNCHANGED <<clock, sel, batch, shutdown_requested, swpc, stuck, sweeps, enq>>

InitCap ==
    /\ InitQueue
    /\ web \in {NoWeb(cap, DefaultMaxLinksPerPage) : cap \in 1..MaxCap}

NextCap ==
    \/ \E u \in CapUrls : AddDomainUrl(u, 0)
    \/ \E limit \in 1..max_items : LeaseSelect(QP, limit)
    \/ LeaseCommit(QP)
    \/ FinishBatch(QP)
    \/ StartCollect(QP)
    \/ SkipDomainLimit(QP)
    \/ \E status \in {"success", "failed"} : CollectPage(QP, status)

\* one process_queue run over URLs of one host, the limit drawn at start-up
SpecCap == InitCap /\ [][NextCap]_vars

\* the entries of the domain of u whose page was fetched and that are completed
Processed(u) ==
    {i \in fetched : /\ domain_name(queue[i].url) = domain_name(u)
                     /\ queue[i].status = "completed"}

\* C13: once max_urls_per_domain entries of a domain (distinct URLs) have been
\* processed successfully, the next leased entry of that domain the worker
\* takes up is marked skipped with the limit as the reason and is not fetched
C13_SkippedAfterDomainLimit ==
    [][(/\ pc[QP] \in {"loop", "collecting"}
        /\ idx[QP] <= Len(batch[QP])
        /\ idx'[QP] = idx[QP] + 1
        /\ Cardinality(Processed(Cur(QP).url)) >= max_urls_per_domain)
       => /\ queue'[Cur(QP).id].status = "skipped"
          /\ queue'[Cur(QP).id].error_message = "reason"
          /\ Cur(QP).id \notin fetched']_vars

\* ------------------------------------------------------------- page processing
\* the <a href> elements a fetched page can hold: href and stripped link text
Hrefs == {"http://a.com/1", "http://a.com/1#top", "http://a.com/2", "http://b.com/1",
          "http://b.com/login", "http://s.a.com/1", "ftp://b.com/1", "/1"}
Links == {[href |-> h, link_text |-> "docs"] : h \in Hrefs}
            \cup {[href |-> "http://b.com/1", link_text |-> ""]}
Pages == UNION {[1..n -> Links] : n \in 0..MaxLinks}

\* the entry whose page is processed
SeedUrl == "http://a.com/3"

\* _should_exclude_url: no netloc, an excluded pattern in the URL, or a link
\* text shorter than two characters (the other tests reject no href of Hrefs)
should_exclude_url(url, link_text) ==
    \/ urlparse(url).netloc = ""
    \/ urlparse(url).path = "/login"
    \/ link_text = ""

\* _clean_url_for_queue: scheme://netloc/path, query and fragment dropped
clean_url_for_queue(url) ==
    IF url = "http://a.com/1#top" THEN "http://a.com/1" ELSE url

\* _is_valid_domain: the pattern accepts every non-empty host of the model
is_valid_domain(d) == d # ""

\* step 1 of _collect_relationships_and_discover for one link
ValidLink(l) ==
    /\ l.href # ""
    /\ ~should_exclude_url(l.href, l.link_text)
    /\ urlparse(l.href).netloc # ""
    /\ is_valid_domain(urlparse(l.href).netloc)

valid_internal_links(all_links, d) ==
    SelectSeq(all_links, LAMBDA l : ValidLink(l) /\ urlparse(l.href).netloc = d)

valid_external_links(all_links, d) ==
    SelectSeq(all_links, LAMBDA l : ValidLink(l) /\ urlparse(l.href).netloc # d)

\* step 2: the two budgets; // rounds down
max_internal_links == IF max_links_per_page \div 4 >= 1 THEN max_links_per_page \div 4 ELSE 1
max_external_links == max_links_per_page - max_internal_links

\* tldextract.extract on the hosts of the model
tldextract(d) ==
    CASE d = "s.a.com" -> [subdomain |-> "s", domain |-> "a", suffix |-> "com"]
      [] d = "a.com"   -> [subdomain |-> "", domain |-> "a", suffix |-> "com"]
      [] d = "b.com"   -> [subdomain |-> "", domain |-> "b", suffix |-> "com"]
      [] OTHER         -> [subdomain |-> "", domain |-> d, suffix |-> ""]

\* the outcomes of session.head(href, allow_redirects=True): an exception, or
\* the status and host of the final response
HeadOutcomes(href) ==
    {[ok |-> FALSE, status_code |-> 0, final_domain |-> ""]} \cup
    IF urlparse(href).scheme \in {"http", "https"}
    THEN [ok : {TRUE}, status_code : {200, 301},
          final_domain : {urlparse(href).netloc, "c.com"}]
    ELSE {}

\* relationship type detection for a link from source to target_domain
rel_type(source, target_domain, head) ==
    IF /\ tldextract(source).domain = tldextract(target_domain).domain
       /\ tldextract(source).suffix = tldextract(target_domain).suffix
       /\ tldextract(source).subdomain = ""
       /\ tldextract(target_domain).subdomain # ""
    THEN "subdomain"
    ELSE IF /\ head.ok
            /\ head.status_code >= 300 /\ head.status_code < 400
            /\ head.final_domain # ""
            /\ head.final_domain # target_domain
    THEN "redirect"
    ELSE "link"

\* INSERT INTO relationships ... ON DUPLICATE KEY UPDATE link_url
insert_relationship(rels, source, target, type, href) ==
    {r \in rels : ~(r.source = source /\ r.target = target /\ r.type = type)}
        \cup {[source |-> source, target |-> target, type |-> type, link_url |-> href]}

\* the rows written for one kept link: the redirect row, then the main row
LinkRelationships(rels, source, l, head) ==
    LET target == urlparse(l.href).netloc
        type == rel_type(source, target, head)
        r1 == IF type = "redirect"
              THEN insert_relationship(rels, source, head.final_domain, "redirect", l.href)
              ELSE rels
    IN insert_relationship(r1, source, target, type, l.href)

\* get_domain_id / insert_domain stubs of the target and of the final host
LinkDomains(doms, source, l, head) ==
    LET target == urlparse(l.href).netloc
    IN doms \cup {target}
            \cup IF rel_type(source, target, head) = "redirect"
                 THEN {head.final_domain} ELSE {}

\* add_discovered_urls_to_queue: each URL not in the queue and under the limit
RECURSIVE add_discovered_urls_to_queue(_, _, _, _, _)
add_discovered_urls_to_queue(q, h, discovered_urls, depth, now) ==
    IF discovered_urls = <<>> THEN q
    ELSE LET url_data == Head(discovered_urls)
             q2 == IF \/ is_url_in_queue(q, url_data.url)
                      \/ get_domain_processing_count(h, url_data.domain) >= max_urls_per_domain
                   THEN q
                   ELSE add_to_discovery_queue(q, url_data.url, depth, 1, now)
         IN add_discovered_urls_to_queue(q2, h, Tail(discovered_urls), depth, now)

\* variant: the robots decision is not consulted
IgnoreRobots(allowed) == "fetch"
\* where _collect_relationships_and_discover goes after the robots decision
AfterRobots(allowed) == IF allowed THEN "fetch" ELSE "return"

PageFrame == UNCHANGED <<queue, clock, pc, sel, batch, idx, shutdown_requested, swpc, stuck,
                         sweeps, returns, enq, last>>

\* collect_domain_data: the robots decision for the domain, the domain row
CheckRobots(w, allowed) ==
    /\ pc[w] = "collecting"
    /\ page.stage \in {"none", "done"}
    /\ web' = [web EXCEPT
                 !.page = [stage |-> AfterRobots(allowed), allowed |-> allowed,
                           fetch_ok |-> FALSE, internal |-> <<>>, external |-> <<>>, k |-> 1,
                           internal_links_added |-> 0, external_links_added |-> 0,
                           unique |-> {}, discovered |-> <<>>, requested |-> NoRequest],
                 !.domains = @ \cup {domain_name(Cur(w).url)}]
    /\ PageFrame

\* session.get of http://<domain> raises, or returns a page with its links
FetchPage(w, ok, all_links) ==
    /\ pc[w] = "collecting"
    /\ page.stage = "fetch"
    /\ IF ok
       THEN web' = [web EXCEPT
                      !.page = [@ EXCEPT
                          !.stage = "internal", !.fetch_ok = TRUE,
                          !.requested = BaseUrl(domain_name(Cur(w).url)),
                          !.internal = valid_internal_links(all_links, domain_name(Cur(w).url)),
                          !.external = valid_external_links(all_links, domain_name(Cur(w).url))]]
       ELSE /\ all_links = <<>>
            /\ web' = [web EXCEPT
                         !.page = [@ EXCEPT !.stage = "return",
                                            !.requested = BaseUrl(domain_name(Cur(w).url))],
                         !.history = record_url_processing(
                                         @, HomeUrl(domain_name(Cur(w).url)),
                                         domain_name(Cur(w).url), "failed")]
    /\ PageFrame

\* the link the current loop is at
CurLink == IF page.stage = "internal" THEN page.internal[page.k] ELSE page.external[page.k]

\* one iteration of the internal link loop
InternalLink(w, head) ==
    /\ pc[w] = "collecting"
    /\ page.stage = "internal"
    /\ page.k <= Len(page.internal)
    /\ page.internal_links_added < max_internal_links
    /\ LET l == page.internal[page.k]
           clean_url == clean_url_for_queue(l.href)
           target_domain == urlparse(l.href).netloc
       IN IF \/ clean_url \in page.unique
             \/ get_domain_processing_count(history, target_domain) >= max_urls_per_domain
          THEN /\ head = [ok |-> FALSE, status_code |-> 0, final_domain |-> ""]
               /\ web' = [web EXCEPT
                            !.page = [@ EXCEPT !.k = @ + 1, !.unique = @ \cup {clean_url}]]
          ELSE /\ head \in HeadOutcomes(l.href)
               /\ web' = [web EXCEPT
                            !.relationships =
                                LinkRelationships(@, domain_name(Cur(w).url), l, head),
                            !.domains = LinkDomains(@, domain_name(Cur(w).url), l, head),
                            !.page = [@ EXCEPT
                                !.k = @ + 1, !.unique = @ \cup {clean_url},
                                !.internal_links_added = @ + 1,
                                !.discovered = Append(@, [url |-> clean_url,
                                                          domain |-> target_domain])]]
    /\ PageFrame

\* the internal loop ends: list exhausted or budget used
EndInternal(w) ==
    /\ pc[w] = "collecting"
    /\ page.stage = "internal"
    /\ page.k > Len(page.internal) \/ page.internal_links_added >= max_internal_links
    /\ web' = [web EXCEPT !.page = [@ EXCEPT !.stage = "external", !.k = 1, !.unique = {}]]
    /\ PageFrame

\* one iteration of the external link loop
ExternalLink(w, head) ==
    /\ pc[w] = "collecting"
    /\ page.stage = "external"
    /\ page.k <= Len(page.external)
    /\ page.external_links_added < max_external_links
    /\ LET l == page.external[page.k]
           target_domain == urlparse(l.href).netloc
       IN IF \/ target_domain \in page.unique
             \/ get_domain_processing_count(history, target_domain) >= max_urls_per_domain
          THEN /\ head = [ok |-> FALSE, status_code |-> 0, final_domain |-> ""]
               /\ web' = [web EXCEPT
                            !.page = [@ EXCEPT !.k = @ + 1, !.unique = @ \cup {target_domain}]]
          ELSE /\ head \in HeadOutcomes(l.href)
               /\ web' = [web EXCEPT
                            !.relationships =
                                LinkRelationships(@, domain_name(Cur(w).url), l, head),
                            !.domains = LinkDomains(@, domain_name(Cur(w).url), l, head),
                            !.page = [@ EXCEPT
                                !.k = @ + 1, !.unique = @ \cup {target_domain},
                                !.external_links_added = @ + 1,
                                !.discovered = Append(@, [url |-> clean_url_for_queue(l.href),
                                                          domain |-> target_domain])]]
    /\ PageFrame

\* the external loop ends: the processing is recorded as a success
EndExternal(w) ==
    /\ pc[w] = "collecting"
    /\ page.stage = "external"
    /\ page.k > Len(page.external) \/ page.external_links_added >= max_external_links
    /\ web' = [web EXCEPT
                 !.page = [@ EXCEPT !.stage = "return"],
                 !.history = record_url_processing(@, HomeUrl(domain_name(Cur(w).url)),
                                                   domain_name(Cur(w).url), "success")]
    /\ PageFrame

\* collect_domain_data queues the discovered URLs and returns; process_queue
\* marks the entry completed
ReturnCollect(w) ==
    /\ w = QP
    /\ pc[w] = "collecting"
    /\ page.stage = "return"
    /\ queue' = mark_queue_item_completed(
                    add_discovered_urls_to_queue(queue, history, page.discovered,
                                                 Cur(w).depth + 1, CURRENT_TIMESTAMP),
                    Cur(w).id, TRUE, CURRENT_TIMESTAMP)
    /\ returns' = Returns(queue', queue, returns)
    /\ web' = [web EXCEPT
                 !.fetched = IF page.fetch_ok THEN @ \cup {Cur(w).id} ELSE @,
                 !.page = [@ EXCEPT !.stage = "done"]]
    /\ pc' = [pc EXCEPT ![w] = "loop"]
    /\ idx' = [idx EXCEPT ![w] = @ + 1]
    /\ last' = NoOp
    /\ UNCHANGED <<clock, sel, batch, shutdown_requested, swpc, stuck, sweeps, enq>>

InitPage ==
    /\ InitQueue
    /\ web \in {NoWeb(DefaultMaxUrlsPerDomain, links) : links \in 0..MaxLinksCfg}

NextPage ==
    \/ AddDomainUrl(SeedUrl, max_depth - 1)
    \/ LeaseSelect(QP, max_items)
    \/ LeaseCommit(QP)
    \/ FinishBatch(QP)
    \/ SkipDepthQP(QP)
    \/ StartCollect(QP)
    \/ \E allowed \in BOOLEAN : CheckRobots(QP, allowed)
    \/ \E ok \in BOOLEAN, all_links \in Pages : FetchPage(QP, ok, all_links)
    \/ \E head \in UNION {HeadOutcomes(h) : h \in Hrefs} : InternalLink(QP, head)
    \/ EndInternal(QP)
    \/ \E head \in UNION {HeadOutcomes(h) : h \in Hrefs} : ExternalLink(QP, head)
    \/ EndExternal(QP)
    \/ ReturnCollect(QP)

\* one process_queue run over one entry of the deepest level that is still
\* processed, and what its page leads to
SpecPage == InitPage /\ [][NextPage]_vars

\* a page processing is under way
InPage == page.stage \notin {"none", "done"}

KeepsLink ==
    /\ page.stage \in {"internal", "external"}
    /\ page'.stage = page.stage
    /\ Len(page'.discovered) = Len(page.discovered) + 1

\* C17: a kept link writes exactly one edge from the page's domain to the
\* link's domain, labelled link or subdomain; when the step also writes a
\* redirect edge to another host, the edge to the link's domain is labelled link
C17_OneNominalEdgePerKeptLink ==
    [][KeepsLink =>
          LET source == domain_name(Cur(QP).url)
              target == urlparse(CurLink.href).netloc
              nominal == {r \in relationships' : /\ r.source = source
                                                 /\ r.target = target
                                                 /\ r.link_url = CurLink.href}
              redirects == {r \in relationships' \ relationships :
                               r.type = "redirect" /\ r.target # target}
          IN /\ Cardinality(nominal) = 1
             /\ \A r \in nominal : r.type \in {"link", "subdomain"}
             /\ redirects # {} => \A r \in nominal : r.type = "link"]_vars

\* an href with an http or https scheme and a host
HttpWithHost(url) ==
    /\ urlparse(url).scheme \in {"http", "https"}
    /\ urlparse(url).netloc # ""

\* C18: a relationship row, a domain stub or a discovered URL is written during
\* a page processing only for a link the filter keeps, whose href has an http
\* or https scheme and a host; every queue entry added has such a URL
C18_NothingForRejectedHref ==
    [][/\ (/\ InPage
           /\ \/ relationships' # relationships
              \/ domains' # domains
              \/ page'.discovered # page.discovered)
            => /\ KeepsLink
               /\ ~should_exclude_url(CurLink.href, CurLink.link_text)
               /\ HttpWithHost(CurLink.href)
       /\ \A i \in Ids(queue') \ Ids(queue) : HttpWithHost(queue'[i].url)]_vars

\* C19: in a page processing the kept links, internal plus external, and the
\* discovered URLs number at most max_links_per_page, and the kept internal
\* links at most the ceiling of max_links_per_page / 4
C19_KeptLinksWithinBudget ==
    page.stage # "none" =>
        /\ page.internal_links_added + page.external_links_added <= max_links_per_page
        /\ Len(page.discovered) <= max_links_per_page
        /\ page.internal_links_added <= (max_links_per_page + 3) \div 4

\* C20: when the fetch of the entry's page failed, the step that ends the
\* processing leaves the entry failed with the error recorded, not completed
C20_FetchFailureMarksFailed ==
    [][(/\ page.stage = "return"
        /\ page.allowed
        /\ ~page.fetch_ok
        /\ page'.stage = "done")
       => /\ queue'[Cur(QP).id].status = "failed"
          /\ queue'[Cur(QP).id].error_message = "error"]_vars

\* ------------------------------------------------------------- robots.txt
\* strings are sequences of characters
Slash == <<"/">>
startswith(str, prefix) ==
    /\ Len(prefix) <= Len(str)
    /\ SubSeq(str, 1, Len(prefix)) = prefix

\* rule values and request paths of the checks
RuleValues == {<<>>, Slash, <<"/", "a">>, <<"a">>, <<"/", "a", "b">>}
Paths == {Slash, <<"/", "a">>, <<"/", "a", "b">>, <<"/", "b">>, <<"a">>}
Rules == [type : {"allow", "disallow"}, value : RuleValues]
RuleLists(n) == UNION {[1..m -> Rules] : m \in 0..n}

\* _path_matches: an empty value matches all, a value gets a leading slash
path_matches(path, rule_value) ==
    IF rule_value = <<>> THEN TRUE
    ELSE startswith(path, IF startswith(rule_value, Slash)
                          THEN rule_value ELSE Slash \o rule_value)

NoMatch == [matched |-> "none", matched_value |-> <<>>, max_len |-> -1]

\* the for loop of _find_robots_decision from rule k on
RECURSIVE MatchLoop(_, _, _, _)
MatchLoop(path, rules, k, m) ==
    IF k > Len(rules) THEN m
    ELSE LET rule_value == IF rules[k].value = <<>> THEN Slash ELSE rules[k].value
         IN MatchLoop(path, rules, k + 1,
                IF path_matches(path, rule_value) /\ Len(rule_value) > m.max_len
                THEN [matched |-> rules[k].type, matched_value |-> rule_value,
                      max_len |-> Len(rule_value)]
                ELSE m)

\* _find_robots_decision: decision, rule type and rule value
find_robots_decision(path, rules) ==
    LET p == IF startswith(path, Slash) THEN path ELSE Slash \o path
        m == MatchLoop(p, rules, 1, NoMatch)
    IN IF m.matched = "none" THEN <<TRUE, "none", <<>> >>
       ELSE <<m.matched = "allow", m.matched, m.matched_value>>

\* variant: an exception inside the try block denies
DenyOnError(respect_robots_txt, response, rules, path) ==
    IF ~respect_robots_txt THEN TRUE
    ELSE IF response.raises THEN FALSE
    ELSE IF response.status_code # 200 THEN TRUE
    ELSE IF response.parse_raises THEN FALSE
    ELSE find_robots_decision(path, rules.ua \o rules.star)[1]

\* _check_robots_txt: rules are the parsed sections of the crawler's user
\* agent and of *
check_robots_txt(respect_robots_txt, response, rules, path) ==
    IF ~respect_robots_txt THEN TRUE
    ELSE IF response.raises THEN TRUE
    ELSE IF response.status_code # 200 THEN TRUE
    ELSE IF response.parse_raises THEN TRUE
    ELSE find_robots_decision(path, rules.ua \o rules.star)[1]

\* the answers of session.get(robots_url) and of the parsing that follows
Responses == [raises : BOOLEAN, status_code : {200, 404}, parse_raises : BOOLEAN]

\* the rules l as parsed: the first n under the user agent, the rest under *
Sections(l, n) ==
    LET m == IF n > Len(l) THEN Len(l) ELSE n
    IN [ua |-> [k \in 1..m |-> l[k]], star |-> [k \in 1..(Len(l) - m) |-> l[k + m]]]

RobotsInputs ==
    {[stage |-> "input", respect_robots_txt |-> c, response |-> r,
      rules |-> Sections(l, n), path |-> p] :
        c \in BOOLEAN, r \in Responses, p \in Paths,
        l \in RuleLists(MaxRules), n \in 0..MaxRules}

RobotsFrame == UNCHANGED <<queue, clock, pc, sel, batch, idx, shutdown_requested, swpc, stuck,
                           sweeps, returns, enq, last>>

\* _check_robots_txt is called with the inputs
CheckRobotsTxt ==
    /\ robots.stage = "input"
    /\ web' = [web EXCEPT
                 !.robots = [stage |-> "checked", input |-> robots,
                             allowed |-> check_robots_txt(robots.respect_robots_txt,
                                                          robots.response, robots.rules,
                                                          robots.path)]]
    /\ RobotsFrame

\* _find_robots_decision is called with the path and the matched rules
FindRobotsDecision ==
    /\ robots.stage = "input"
    /\ web' = [web EXCEPT
                 !.robots = [stage |-> "decided", input |-> robots,
                             decision |-> find_robots_decision(
                                              robots.path,
                                              robots.rules.ua \o robots.rules.star)]]
    /\ RobotsFrame

InitRobots ==
    /\ InitQueue
    /\ web \in {[NoWeb(DefaultMaxUrlsPerDomain, DefaultMaxLinksPerPage) EXCEPT !.robots = r] :
                   r \in RobotsInputs}

NextRobots ==
    \/ CheckRobotsTxt
    \/ FindRobotsDecision

\* the robots.txt functions applied to every input up to the bounds
SpecRobots == InitRobots /\ [][NextRobots]_vars

\* the reference decision: of the rules whose value, / for an empty one, is a
\* prefix of p, a longest one decides, allow before disallow; allow if none
BruteForce(p, rules) ==
    LET Value(k) == IF rules[k].value = <<>> THEN Slash ELSE rules[k].value
        matching == {k \in 1..Len(rules) : startswith(p, Value(k))}
        longest == {k \in matching : \A j \in matching : Len(Value(j)) <= Len(Value(k))}
    IN matching = {} \/ \E k \in longest : rules[k].type = "allow"

\* C15: for every rule list and path, _find_robots_decision returns the
\* decision of the brute-force reference
C15_DecisionEqualsBruteForce ==
    robots.stage = "decided" =>
        robots.decision[1] =
            BruteForce(robots.input.path, robots.input.rules.ua \o robots.input.rules.star)

\* C16: _check_robots_txt answers allowed whenever respect_robots_txt is
\* disabled, the fetch of robots.txt raises or returns a status other than
\* 200, or the parsing raises
C16_ErrorsNeverDeny ==
    robots.stage = "checked" =>
        LET i == robots.input
        IN (\/ ~i.respect_robots_txt
            \/ i.response.raises
            \/ i.response.status_code # 200
            \/ i.response.parse_raises) => robots.allowed

\* a check whose fetch raised was answered allowed although the rules deny
C16_AllowedAfterError ==
    /\ robots.stage = "checked"
    /\ robots.input.respect_robots_txt
    /\ robots.input.response.raises
    /\ ~find_robots_decision(robots.input.path,
                             robots.input.rules.ua \o robots.input.rules.star)[1]
    /\ robots.allowed


\* ------------------------------------------------------------- per-item timeout
\* process_batch runs collect_domain_data in a daemon thread and joins it for
\* 300 s.  The thread is never stopped: after a timed-out join it goes on
\* inside collect_domain_data, on the worker's DomainCollector and its one
\* database connection (autocommit off), while the worker marks the item and
\* takes the next one.

\* the --batch-size values of the runs
BatchSizes == {batch_size, batch_size + 1}

\* the thread collect_with_timeout of an item
Thread(item, alive) == [id |-> item.id, url |-> item.url, depth |-> item.depth, alive |-> alive]
Alive == {t \in threads : t.alive}

\* mark_queue_item_completed(success=False) of the worker while the thread of
\* the item uses the same connection: the UPDATE is committed, or it is lost
\* (rolled back by a rollback of the thread, or it raises an Error that
\* mark_queue_item_completed catches)
MarkOutcomes(q, id, now) == {mark_queue_item_completed(q, id, FALSE, now), q}

\* collection_thread.join(timeout) returns with the thread alive
JoinTimedOut(w) == w = PC /\ pc[w] = "collecting"

\* process_batch: the join times out, TimeoutError is raised, re-raised by its
\* handler and caught by the handler of the item, which marks the item failed;
\* the loop goes on with the next item
JoinTimeout(w) ==
    /\ JoinTimedOut(w)
    /\ ~LockedByOther(w, Cur(w).id)
    /\ queue' \in MarkOutcomes(queue, Cur(w).id, CURRENT_TIMESTAMP)
    /\ returns' = Returns(queue', queue, returns)
    /\ web' = [web EXCEPT !.threads = @ \cup {Thread(Cur(w), TRUE)}]
    /\ pc' = [pc EXCEPT ![w] = "loop"]
    /\ idx' = [idx EXCEPT ![w] = @ + 1]
    /\ last' = NoOp
    /\ UNCHANGED <<clock, sel, batch, shutdown_requested, swpc, stuck, sweeps, enq>>

\* the thread left behind reaches add_discovered_urls_to_queue for a URL
ThreadDiscover(t, u) ==
    /\ t \in Alive
    /\ ~is_url_in_queue(queue, u)
    /\ HasUrl(queue, u) => ~Locked(IdOf(queue, u))
    /\ queue' = add_to_discovery_queue(queue, u, t.depth + 1, 1, CURRENT_TIMESTAMP)
    /\ returns' = Returns(queue', queue, returns)
    /\ enq' = Enq(enq, u, t.depth + 1, 1)
    /\ last' = NoOp
    /\ UNCHANGED <<clock, pc, sel, batch, idx, shutdown_requested,
                   swpc, stuck, sweeps, pageVars>>

\* the thread left behind returns from collect_domain_data; nobody reads its result
ThreadReturn(t) ==
    /\ t \in Alive
    /\ web' = [web EXCEPT !.threads = (@ \ {t}) \cup {[t EXCEPT !.alive = FALSE]}]
    /\ last' = NoOp
    /\ UNCHANGED <<queue, clock, pc, sel, batch, idx, shutdown_requested,
                   swpc, stuck, sweeps, returns, enq>>

\* process_batch after mark_queue_item_completed(success=True): the URLs to
\* add are built from the relationships that carry 'target_domain_name';
\* collect_domain_data returns relationships with the keys source, target,
\* type, link_text and link_url
RelationshipKeys == {"source", "target", "type", "link_text", "link_url"}
batch_discovered_urls(rels) == {rel \in rels : "target_domain_name" \in RelationshipKeys}

\* process_batch: discoveries, request delay, next item
AddDiscoveriesPC(w) ==
    /\ w = PC
    /\ pc[w] = "discoveries"
    /\ LET discovered_urls == batch_discovered_urls(Urls)
       IN IF write_discoveries /\ discovered_urls # {}
          THEN \E u \in discovered_urls :
                  /\ queue' = add_to_discovery_queue(queue, u, Cur(w).depth + 1, 1, CURRENT_TIMESTAMP)
                  /\ enq' = Enq(enq, u, Cur(w).depth + 1, 1)
          ELSE UNCHANGED <<queue, enq>>
    /\ returns' = Returns(queue', queue, returns)
    /\ pc' = [pc EXCEPT ![w] = "loop"]
    /\ idx' = [idx EXCEPT ![w] = @ + 1]
    /\ last' = NoOp
    /\ UNCHANGED batch
    /\ WorkerFrame

\* a parallel worker is started with or without --no-discoveries
InitBatch ==
    /\ InitQueue
    /\ web \in {[NoWeb(DefaultMaxUrlsPerDomain, DefaultMaxLinksPerPage)
                    EXCEPT !.write_discoveries = b] : b \in BOOLEAN}

\* one process_batch worker in continuous mode, no signal and no kill
NextBatch ==
    \/ \E u \in Urls : AddSeed(u)
    \/ Tick
    \/ \E limit \in BatchSizes : LeaseSelect(PC, limit)
    \/ LeaseCommit(PC)
    \/ FinishBatch(PC)
    \/ SkipDepthPC(PC)
    \/ StartCollect(PC)
    \/ \E u \in Urls : Discover(PC, u)
    \/ CollectOk(PC)
    \/ CollectError(PC)
    \/ JoinTimeout(PC)
    \/ AddDiscoveriesPC(PC)
    \/ \E t \in threads, u \in Urls : ThreadDiscover(t, u)
    \/ \E t \in threads : ThreadReturn(t)

SpecBatch == InitBatch /\ [][NextBatch]_vars

\* the items of the worker's batch whose join timed out
TimedOut(w) == {k \in 1..Len(batch[w]) : \E t \in threads : t.id = batch[w][k].id}

\* C21: when the collection of an item has not finished at the per-item
\* timeout, the item is marked failed with an error, the worker goes on with
\* the next item of its batch, and the item is failed when the batch ends
C21_TimeoutMarksFailed ==
    [][/\ JoinTimedOut(PC) /\ idx'[PC] = idx[PC] + 1 =>
             /\ queue'[Cur(PC).id].status = "failed"
             /\ queue'[Cur(PC).id].error_message = "error"
             /\ pc'[PC] = "loop"
       /\ pc[PC] = "loop" /\ pc'[PC] = "start" =>
             \A k \in TimedOut(PC) : queue[batch[PC][k].id].status = "failed"]_vars


\* ------------------------------------------------------------- lease failures
\* get_next_from_queue when a statement raises a database Error (lock wait
\* timeout, deadlock, lost connection).  A statement that raises changes no
\* row.  The handler counts the failure, rolls the open transaction back and
\* either returns [] or sleeps and tries again.

\* variant: the retry loop has no bound
RetryForever(n) == TRUE

\* while retry_count < max_retries
RetryAgain(n) == n < max_retries

\* the call returns []: process_queue returns, run_continuous waits and loops
ReturnEmpty(w) == IF w = QP THEN "done" ELSE "start"

\* except Error, from retry_count += 1 on, once the transaction is closed
AfterError(w, n) ==
    pc' = [pc EXCEPT ![w] = IF RetryAgain(n) THEN "retry" ELSE ReturnEmpty(w)]

\* an attempt fails before or at the SELECT: cursor(), start_transaction() or
\* execute(select_query) raises; with the transaction started the handler
\* goes on to roll it back
LeaseSelectError(w, started) ==
    /\ AtLease(w)
    /\ web' = [web EXCEPT !.retry_count[w] = Failures(w) + 1]
    /\ IF started
       THEN pc' = [pc EXCEPT ![w] = "rollback"]
       ELSE AfterError(w, Failures(w) + 1)
    /\ last' = NoOp
    /\ UNCHANGED <<queue, clock, sel, batch, idx, shutdown_requested,
                   swpc, stuck, sweeps, returns, enq>>

\* an attempt fails after the SELECT: execute(update_query) or commit() raises
\* and no row is updated; the rows stay locked until the rollback
LeaseUpdateError(w) ==
    /\ pc[w] = "selected"
    /\ pc' = [pc EXCEPT ![w] = "rollback"]
    /\ web' = [web EXCEPT !.retry_count[w] = @ + 1]
    /\ last' = NoOp
    /\ UNCHANGED <<queue, clock, sel, batch, idx, shutdown_requested,
                   swpc, stuck, sweeps, returns, enq>>

\* the handler's rollback: it succeeds, or it raises because the connection
\* is lost (bare except: pass) and the server rolls the transaction back
LeaseRollback(w) ==
    /\ pc[w] = "rollback"
    /\ sel' = [sel EXCEPT ![w] = <<>>]
    /\ AfterError(w, retry_count[w])
    /\ last' = NoOp
    /\ UNCHANGED <<queue, clock, batch, idx, shutdown_requested,
                   swpc, stuck, sweeps, returns, enq, pageVars>>

\* two workers whose lease statements may fail, no signal and no kill
NextLease ==
    \/ \E u \in Urls : AddSeed(u)
    \/ \E w \in Workers : LeaseSelect(w, Limit(w))
    \/ \E w \in Workers : LeaseCommit(w)
    \/ \E w \in Workers, started \in BOOLEAN : LeaseSelectError(w, started)
    \/ \E w \in Workers : LeaseUpdateError(w)
    \/ \E w \in Workers : LeaseRollback(w)
    \/ \E w \in Workers : FinishBatch(w)
    \/ \E w \in Workers : StartCollect(w)
    \/ \E w \in Workers : CollectOk(w)
    \/ \E w \in Workers : NextItemPC(w)

SpecLease == Init /\ [][NextLease]_vars

\* a step of worker w on the failure path of get_next_from_queue
FailureStep(w) ==
    /\ pc'[w] # pc[w] \/ retry_count'[w] # retry_count[w]
    /\ \/ pc'[w] = "rollback"
       \/ pc[w] = "rollback"
       \/ pc[w] \in {"start", "retry"} /\ pc'[w] = "retry"
       \/ pc[w] = "retry" /\ pc'[w] = ReturnEmpty(w)

\* get_next_from_queue of worker w returns after a failed attempt
GivesUp(w) == pc[w] \in {"retry", "rollback"} /\ pc'[w] = ReturnEmpty(w)

\* C24: get_next_from_queue makes at most 3 attempts; when every attempt
\* failed with a database error it returns an empty list, has moved no row to
\* processing and leaves no transaction open
C24_LeaseGivesUpAfterThreeErrors ==
    [][\A w \in Workers :
          /\ retry_count'[w] <= max_retries
          /\ FailureStep(w) => queue' = queue
          /\ GivesUp(w) =>
                /\ retry_count'[w] = max_retries
                /\ batch'[w] = <<>>
                /\ sel'[w] = <<>>]_vars

\* a call has failed three times and returned the empty list while rows
\* were pending
C24_GaveUp ==
    \E w \in Workers :
       /\ pc[w] = ReturnEmpty(w)
       /\ retry_count[w] = max_retries
       /\ batch[w] = <<>>
       /\ sel[w] = <<>>
       /\ WherePending(queue) # {}


\* ------------------------------------------------------------- signals
\* _signal_handler of a worker process (SIGINT, SIGTERM).  Python runs the
\* handler in the main thread between two of its instructions; sys.exit(1)
\* raises SystemExit there, and the process ends with exit code 1 when no
\* handler on the stack catches it.  except Exception and except Error let
\* SystemExit pass; the bare except around the rollback of
\* get_next_from_queue catches it.

\* the main thread is inside a try block whose handler catches SystemExit
InBareExcept(w) == pc[w] = "rollback"

Running(w) == pc[w] \notin {"done", "crashed", "exited"}

SignalHandler(w) ==
    /\ Running(w)
    /\ signal_count[w] < MaxSignals
    /\ LET count == signal_count[w] + 1
       IN IF count >= force_shutdown_after
          THEN IF InBareExcept(w)
               THEN /\ web' = [web EXCEPT !.signal_count[w] = count]
                    /\ UNCHANGED <<pc, sel, shutdown_requested>>
               ELSE /\ web' = [web EXCEPT !.signal_count[w] = count, !.exit_code[w] = 1]
                    /\ pc' = [pc EXCEPT ![w] = "exited"]
                    /\ sel' = [sel EXCEPT ![w] = <<>>]
                    /\ UNCHANGED shutdown_requested
          ELSE /\ web' = [web EXCEPT !.signal_count[w] = count]
               /\ shutdown_requested' = [shutdown_requested EXCEPT ![w] = TRUE]
               /\ UNCHANGED <<pc, sel>>
    /\ last' = NoOp
    /\ UNCHANGED <<queue, clock, batch, idx, swpc, stuck, sweeps, returns, enq>>

\* two workers that are sent signals and whose lease statements may fail
NextSignal ==
    \/ \E u \in Urls : AddSeed(u)
    \/ \E w \in Workers : SignalHandler(w)
    \/ \E w \in Workers : StopAtTop(w)
    \/ \E w \in Workers : LeaseSelect(w, Limit(w))
    \/ \E w \in Workers : LeaseCommit(w)
    \/ \E w \in Workers, started \in BOOLEAN : LeaseSelectError(w, started)
    \/ \E w \in Workers : LeaseUpdateError(w)
    \/ \E w \in Workers : LeaseRollback(w)
    \/ \E w \in Workers : FinishBatch(w)
    \/ \E w \in Workers : StopBatch(w)
    \/ \E w \in Workers : StartCollect(w)
    \/ \E w \in Workers : CollectOk(w)
    \/ \E w \in Workers : CollectEarly(w)
    \/ \E w \in Workers : NextItemPC(w)

SpecSignal == Init /\ [][NextSignal]_vars

\* C22: in a worker process the first and the second signal only raise the
\* shutdown flag and leave the process running; the third signal ends the
\* process at once with exit code 1
C22_ThirdSignalExits ==
    [][\A w \in Workers :
          signal_count'[w] = signal_count[w] + 1 =>
             IF signal_count'[w] < force_shutdown_after
             THEN /\ shutdown_requested'[w]
                  /\ pc'[w] = pc[w]
                  /\ exit_code'[w] = NULL
                  /\ queue' = queue
             ELSE /\ pc'[w] = "exited"
                  /\ exit_code'[w] = 1]_vars


\* ------------------------------------------------------------- coordinator
\* run_parallel_processing starts num_workers processes and joins them.  Its
\* signal_handler replaces Python's SIGINT handler, so no KeyboardInterrupt is
\* raised in the coordinator and the except KeyboardInterrupt branch (join
\* with a 5 s timeout, then kill) is never entered.  A worker process is
\* cooperative (it exits when its work is done or its shutdown flag is set)
\* or it never exits by itself.

ProcessKinds == {"cooperative", "stuck"}
Process(kind) == [kind |-> kind, state |-> "alive", terminated |-> 0]
is_alive(p) == p.state = "alive"

\* p.terminate(): SIGTERM; the worker's _signal_handler counts it and exits
\* with sys.exit(1) from the third on
terminate(p) ==
    IF ~is_alive(p) THEN p
    ELSE IF p.terminated + 1 >= force_shutdown_after
         THEN [p EXCEPT !.terminated = @ + 1, !.state = "exited"]
         ELSE [p EXCEPT !.terminated = @ + 1]

\* p.kill(): SIGKILL
kill(p) == IF is_alive(p) THEN [p EXCEPT !.state = "killed"] ELSE p

CoordFrame == UNCHANGED <<queue, clock, pc, sel, batch, idx, shutdown_requested,
                          swpc, stuck, sweeps, returns, enq, last>>

\* for i in range(num_workers): p.start(); processes.append(p)
StartWorker(kind) ==
    /\ coord.stage = "start"
    /\ Len(coord.processes) < num_workers
    /\ web' = [web EXCEPT !.coord.processes = Append(@, Process(kind))]
    /\ CoordFrame

\* the start loop is done: for i, p in enumerate(processes)
StartJoining ==
    /\ coord.stage = "start"
    /\ Len(coord.processes) = num_workers
    /\ web' = [web EXCEPT !.coord.stage = "join", !.coord.i = 1]
    /\ CoordFrame

\* signal_handler of the coordinator: terminate every process of the list
\* that is alive
CoordSignal ==
    /\ coord.stage \in {"start", "join"}
    /\ coord.signals < MaxSignals
    /\ web' = [web EXCEPT !.coord.signals = @ + 1,
                          !.coord.processes = [k \in DOMAIN @ |-> terminate(@[k])]]
    /\ CoordFrame

\* a cooperative worker returns from worker_process: after its one batch, or
\* in continuous mode when its shutdown flag is set
WorkerExits(k) ==
    /\ k \in DOMAIN coord.processes
    /\ is_alive(coord.processes[k])
    /\ coord.processes[k].kind = "cooperative"
    /\ coord.continuous => coord.processes[k].terminated > 0
    /\ web' = [web EXCEPT !.coord.processes[k].state = "exited"]
    /\ CoordFrame

\* p.join() returns: the process has ended
Join ==
    /\ coord.stage = "join"
    /\ coord.i <= num_workers
    /\ ~is_alive(coord.processes[coord.i])
    /\ web' = [web EXCEPT !.coord.i = @ + 1]
    /\ CoordFrame

\* finally: terminate, join for 2 s and kill what is still alive; return
Finally ==
    /\ coord.stage = "join"
    /\ coord.i > num_workers
    /\ web' = [web EXCEPT !.coord.stage = "returned",
                          !.coord.processes = [k \in DOMAIN @ |-> kill(terminate(@[k]))]]
    /\ CoordFrame

NextCoord ==
    \/ \E kind \in ProcessKinds : StartWorker(kind)
    \/ StartJoining
    \/ CoordSignal
    \/ \E k \in 1..num_workers : WorkerExits(k)
    \/ Join
    \/ Finally

\* parallel_collector.py is started with or without --continuous
InitCoord ==
    /\ InitQueue
    /\ web \in {[NoWeb(DefaultMaxUrlsPerDomain, DefaultMaxLinksPerPage)
                    EXCEPT !.coord.continuous = b] : b \in BOOLEAN}

SpecCoord == InitCoord /\ [][NextCoord]_vars

\* the coordinator runs whenever it can, and so does a cooperative worker
FairCoord ==
    /\ SpecCoord
    /\ WF_vars(\E kind \in ProcessKinds : StartWorker(kind))
    /\ WF_vars(StartJoining)
    /\ WF_vars(Join)
    /\ WF_vars(Finally)
    /\ \A k \in 1..num_workers : WF_vars(WorkerExits(k))

\* C23: after the coordinator received a shutdown signal, every live worker
\* has been sent cancellation, and the coordinator eventually returns with no
\* worker process alive, also when a worker never exits by itself
C23_CoordinatorReturns ==
    coord.signals > 0 ~>
        /\ coord.stage = "returned"
        /\ \A k \in DOMAIN coord.processes : ~is_alive(coord.processes[k])


\* ------------------------------------------------------------- sweep scope
\* row i is in processing under a lease that was returned to worker w; each
\* worker program is an agent of its own ('internal_agent_name' is
\* <hostname>-<pid> of the program)
LeasedBy(w, i) ==
    /\ queue[i].status = "processing"
    /\ returns[i] # <<>>
    /\ returns[i][Len(returns[i])] = w

\* C25: a sweep invoked with agent identity A returns to pending only stale
\* leases of agent A; entries leased by another agent keep their status and
\* processed_at (whichever worker's agent invoked the sweep)
C25_SweepScopedToAgent ==
    [][swpc = "selected" /\ swpc' = "idle" =>
          \E A \in Workers : \A o \in Workers \ {A} : \A i \in Ids(queue) :
             LeasedBy(o, i) =>
                /\ queue'[i].status = queue[i].status
                /\ queue'[i].processed_at = queue[i].processed_at]_vars


\* ------------------------------------------------------------- domains table
\* insert_domain: INSERT ... ON DUPLICATE KEY UPDATE col = VALUES(col) for
\* every data column.  Two of the data columns are modelled; None is Python's
\* None and SQL NULL.
Columns == {"title", "country"}
None == "None"
ColumnValues == {"x", "y", None}

\* domain_data.get(column)
Get(domain_data, c) == IF c \in DOMAIN domain_data THEN domain_data[c] ELSE None

\* ON DUPLICATE KEY UPDATE c = VALUES(c)
Values(row, domain_data, c) == Get(domain_data, c)

insert_domain(t, domain_data) ==
    LET d == domain_data.domain_name
    IN IF t[d] = NoRow
       THEN [t EXCEPT ![d] = [c \in Columns |-> Get(domain_data, c)] @@ [exists |-> TRUE]]
       ELSE [t EXCEPT ![d] = [c \in Columns |-> Values(t[d], domain_data, c)] @@ [exists |-> TRUE]]

\* get_domain_id: the id of the row, None without a row
get_domain_id(t, d) == IF t[d] = NoRow THEN None ELSE d

DomainFrame == UNCHANGED <<queue, clock, pc, sel, batch, idx, shutdown_requested,
                           swpc, stuck, sweeps, returns, enq, last>>

\* collect_domain_data: insert_domain(domain_data) with what the collectors found
InsertCollected(w, d, title, country) ==
    /\ stub_target[w] = NoTarget
    /\ web' = [web EXCEPT !.domain_table =
                  insert_domain(@, [domain_name |-> d, title |-> title, country |-> country])]
    /\ DomainFrame

\* _collect_relationships_and_discover: get_domain_id(target_domain) for a link
LookupTarget(w, d) ==
    /\ stub_target[w] = NoTarget
    /\ IF get_domain_id(domain_table, d) = None
       THEN web' = [web EXCEPT !.stub_target[w] = d]
       ELSE UNCHANGED web
    /\ DomainFrame

\* _collect_relationships_and_discover: no id was found, insert the stub
InsertStub(w) ==
    /\ stub_target[w] # NoTarget
    /\ web' = [web EXCEPT !.domain_table = insert_domain(@, [domain_name |-> stub_target[w]]),
                          !.stub_target[w] = NoTarget]
    /\ DomainFrame

\* two workers that write the domains table
NextDomains ==
    \/ \E w \in Workers, d \in DomainNames, title \in ColumnValues, country \in ColumnValues :
          InsertCollected(w, d, title, country)
    \/ \E w \in Workers, d \in DomainNames : LookupTarget(w, d)
    \/ \E w \in Workers : InsertStub(w)

SpecDomains == Init /\ [][NextDomains]_vars

\* C26: an insert_domain for an existing domain_name treats a null or missing
\* input field as no-op for that column: no stored non-null field of a domain
\* becomes null by an upsert, also when a stub upsert races with a full one
C26_UpsertKeepsNonNullFields ==
    [][\A d \in DomainNames : \A c \in Columns :
          domain_table[d] # NoRow /\ domain_table[d][c] # None =>
             domain_table'[d][c] # None]_vars


\* ------------------------------------------------------------- URL text
\* _clean_url_for_queue on the text of a URL.  A URL is a sequence of tokens:
\* the delimiters of urllib.parse ( : / ; ? # ) one token each, and a run of
\* other characters (a scheme, a host or part of one, a path segment, a
\* query, a fragment) one token.

Take(str, n) == [k \in 1..n |-> str[k]]
Drop(str, n) == [k \in 1..(Len(str) - n) |-> str[k + n]]

\* str.find: the first position of a token of the set, 0 when there is none
Find(str, set) ==
    IF \E k \in 1..Len(str) : str[k] \in set
    THEN CHOOSE k \in 1..Len(str) : str[k] \in set /\ \A j \in 1..(k - 1) : str[j] \notin set
    ELSE 0

\* str.rfind
RFind(str, set) ==
    IF \E k \in 1..Len(str) : str[k] \in set
    THEN CHOOSE k \in 1..Len(str) : str[k] \in set /\ \A j \in (k + 1)..Len(str) : str[j] \notin set
    ELSE 0

SchemeWords == {"http", "HTTP"}
lower(tok) ==
    CASE tok = "HTTP" -> "http"
      [] tok = "A.com" -> "a.com"
      [] tok = "WorldMapper/1.0 (compatible)" -> "worldmapper/1.0 (compatible)"
      [] OTHER -> tok

\* urlsplit: scheme up to the first ':' when all before it are scheme
\* characters, lower-cased
SplitScheme(url) ==
    LET i == Find(url, {":"})
    IN IF i > 1 /\ \A k \in 1..(i - 1) : url[k] \in SchemeWords
       THEN [scheme |-> [k \in 1..(i - 1) |-> lower(url[k])], rest |-> Drop(url, i)]
       ELSE [scheme |-> <<>>, rest |-> url]

\* urlsplit: after '//' the netloc runs to the next '/', '?' or '#'
SplitNetloc(rest) ==
    IF Len(rest) >= 2 /\ rest[1] = "/" /\ rest[2] = "/"
    THEN LET after == Drop(rest, 2)
             i == Find(after, {"/", "?", "#"})
         IN IF i = 0 THEN [netloc |-> after, rest |-> <<>>]
            ELSE [netloc |-> Take(after, i - 1), rest |-> Drop(after, i - 1)]
    ELSE [netloc |-> <<>>, rest |-> rest]

\* urlsplit: the text before the first '#', then before the first '?'
Before(str, set) == IF Find(str, set) = 0 THEN str ELSE Take(str, Find(str, set) - 1)

\* urlparse, _splitparams: parameters start at the first ';' of the last
\* path segment
SplitParams(path_and_params) ==
    LET i == RFind(path_and_params, {"/"})
        tail == Drop(path_and_params, i)
        j == Find(tail, {";"})
    IN IF j = 0 THEN path_and_params ELSE Take(path_and_params, i + j - 1)

\* urllib.parse.urlparse on the text: scheme, netloc and path
urlparse_text(url) ==
    LET s1 == SplitScheme(url)
        s2 == SplitNetloc(s1.rest)
    IN [scheme |-> s1.scheme, netloc |-> s2.netloc,
        path |-> SplitParams(Before(Before(s2.rest, {"#"}), {"?"}))]

\* str.rstrip('/')
RECURSIVE rstrip(_)
rstrip(str) ==
    IF str # <<>> /\ str[Len(str)] = "/" THEN rstrip(Take(str, Len(str) - 1)) ELSE str

\* _clean_url_for_queue
clean_url(url) ==
    LET parsed_url == urlparse_text(url)
        text == parsed_url.scheme \o <<":", "/", "/">> \o parsed_url.netloc \o parsed_url.path
    IN IF text[Len(text)] = "/" /\ Len(text) > 1 THEN rstrip(text) ELSE text

\* hrefs of a page: with or without scheme, hosts in both cases and with
\* www., paths with and without trailing slash and parameters, query, fragment
HrefSchemes == {<<>>, <<"http", ":">>, <<"HTTP", ":">>}
HrefHosts == {<<"a.com">>, <<"A.com">>, <<"www.", "a.com">>}
HrefPaths == {<<>>, <<"/">>, <<"/", "x">>, <<"/", "x", "/">>,
              <<"/", "x", ";", "p">>, <<"/", "x", ";", "p", "/">>}
HrefQueries == {<<>>, <<"?", "q">>}
HrefFragments == {<<>>, <<"#", "f">>}
HrefTexts ==
    {sc \o <<"/", "/">> \o h \o pa \o q \o f :
        sc \in HrefSchemes, h \in HrefHosts, pa \in HrefPaths,
        q \in HrefQueries, f \in HrefFragments}

CanonFrame == UNCHANGED <<clock, pc, sel, batch, idx, shutdown_requested,
                          swpc, stuck, sweeps, enq, last>>

\* _collect_relationships_and_discover: clean_url = _clean_url_for_queue(href)
\* for a link that passed _should_exclude_url
CleanHref(href) ==
    /\ canon.stage = "none"
    /\ web' = [web EXCEPT !.canon = [stage |-> "cleaned", href |-> href,
                                     clean_url |-> clean_url(href), again |-> <<>>]]
    /\ UNCHANGED <<queue, returns>>
    /\ CanonFrame

\* the cleaned URL is cleaned again
CleanAgain ==
    /\ canon.stage = "cleaned"
    /\ web' = [web EXCEPT !.canon.stage = "twice",
                          !.canon.again = clean_url(canon.clean_url)]
    /\ UNCHANGED <<queue, returns>>
    /\ CanonFrame

\* add_discovered_urls_to_queue: the cleaned URL is added to the queue
EnqueueClean ==
    /\ canon.stage \in {"cleaned", "twice"}
    /\ Len(queue) < MaxQueue \/ HasUrl(queue, canon.clean_url)
    /\ queue' = IF is_url_in_queue(queue, canon.clean_url) THEN queue
                ELSE add_to_discovery_queue(queue, canon.clean_url, 1, 1, CURRENT_TIMESTAMP)
    /\ returns' = Returns(queue', queue, returns)
    /\ web' = [web EXCEPT !.canon = NoCanon]
    /\ CanonFrame

\* add_seed_domains: http://<domain> as typed on the command line
AddSeedDomain(domain) ==
    /\ LET url == <<"http", ":", "/", "/">> \o domain
       IN /\ Len(queue) < MaxQueue \/ HasUrl(queue, url)
          /\ queue' = add_to_discovery_queue(queue, url, 0, 1, CURRENT_TIMESTAMP)
    /\ returns' = Returns(queue', queue, returns)
    /\ UNCHANGED pageVars
    /\ CanonFrame

NextCanon ==
    \/ \E href \in HrefTexts : CleanHref(href)
    \/ CleanAgain
    \/ EnqueueClean
    \/ \E domain \in HrefHosts : AddSeedDomain(domain)

SpecCanon == Init /\ [][NextCanon]_vars

\* C27: canonicalization is idempotent: for every URL accepted as a link (any
\* href with a non-empty host), cleaning the cleaned URL gives the cleaned URL
C27_CleanIsIdempotent ==
    canon.stage = "twice" /\ urlparse_text(canon.href).netloc # <<>> =>
        canon.again = canon.clean_url


\* the host without a leading www., lower-cased
CanonHost(netloc) ==
    LET bare == IF netloc # <<>> /\ netloc[1] = "www." THEN Drop(netloc, 1) ELSE netloc
    IN [k \in 1..Len(bare) |-> lower(bare[k])]

\* lower-cased host, no leading www., no query, no fragment, no trailing
\* slash unless the path is /
Canonical(url) ==
    /\ urlparse_text(url).netloc = CanonHost(urlparse_text(url).netloc)
    /\ Find(url, {"?", "#"}) = 0
    /\ url[Len(url)] = "/" => urlparse_text(url).path = <<"/">>

\* the text of a URL between the host and the query
PathAndParams(url) == Before(Before(SplitNetloc(SplitScheme(url).rest).rest, {"#"}), {"?"})

\* two URLs differ at most in query, fragment, trailing slashes, the case of
\* the host and a www. prefix
SameResource(u, v) ==
    /\ urlparse_text(u).scheme = urlparse_text(v).scheme
    /\ CanonHost(urlparse_text(u).netloc) = CanonHost(urlparse_text(v).netloc)
    /\ rstrip(PathAndParams(u)) = rstrip(PathAndParams(v))

\* C28: every URL stored in the queue is in canonical form, so two enqueued
\* URLs that differ only in query, fragment, trailing slash, host case or
\* www. prefix occupy a single queue row
C28_QueueUrlsCanonical ==
    /\ \A i \in Ids(queue) : Canonical(queue[i].url)
    /\ \A i, j \in Ids(queue) : SameResource(queue[i].url, queue[j].url) => i = j


\* C29: with --no-discoveries (write_discoveries false) the processing of a
\* batch adds no entry to the discovery queue and changes no entry's priority
\* or depth
C29_NoDiscoveriesWritten ==
    [][~write_discoveries /\ ~(\E u \in Urls : AddSeed(u)) =>
          /\ Len(queue') = Len(queue)
          /\ \A i \in Ids(queue) : /\ queue'[i].priority = queue[i].priority
                                   /\ queue'[i].depth = queue[i].depth]_vars

\* the collections of the parallel worker that are running
RunningCollections == Cardinality(Alive) + (IF pc[PC] = "collecting" THEN 1 ELSE 0)

\* C30: a worker is sequential with respect to its leased items: at most one
\* item collection of the worker is running at any time, and after a per-item
\* timeout the timed-out collection writes nothing more
C30_OneCollectionAtATime ==
    [][/\ RunningCollections' <= 1
       /\ ~(\E t \in threads, u \in Urls : ThreadDiscover(t, u))]_vars

\* ------------------------------------------------------------- who sweeps
\* cleanup_agent_processing_items has one caller: cleanup_on_exit, the atexit
\* function graceful_restart_callback registers in the process that runs the
\* auto-updater (the main process of parallel_collector.py and of
\* domain_collector.py) when an update restarts it.  worker_process,
\* ParallelQueueProcessor and QueueProcessor.run go from construction to their
\* first get_next_from_queue, and from their last item to collector.close(),
\* without a call of it.
Updater == "updater"

\* cleanup_on_exit: cleanup_agent_processing_items(agent_name, 5), first part
CleanupOnExit(T) ==
    /\ web' = [web EXCEPT !.swept = @ \cup {Updater}]
    /\ swpc = "idle"
    /\ UNCHANGED <<queue, clock, pc, sel, batch, idx, shutdown_requested,
                   returns, enq>>
    /\ LET cutoff_time == datetime_now - timedelta(T)
           found == stuck_items(queue, cutoff_time)
       IN IF found = {}
          THEN /\ last' = NoOp
               /\ UNCHANGED <<swpc, stuck, sweeps>>
          ELSE /\ sweeps < MaxSweeps
               /\ sweeps' = sweeps + 1
               /\ swpc' = "selected"
               /\ stuck' = found
               /\ last' = NoOp

NextStartup ==
    \/ \E u \in Urls : AddSeed(u)
    \/ Tick
    \/ \E w \in Workers : Signal(w)
    \/ \E w \in Workers : StopAtTop(w)
    \/ \E w \in Workers : LeaseSelect(w, Limit(w))
    \/ \E w \in Workers : LeaseCommit(w)
    \/ \E w \in Workers : FinishBatch(w)
    \/ \E w \in Workers : StopBatch(w)
    \/ \E w \in Workers : SkipDepthQP(w)
    \/ \E w \in Workers : SkipDepthPC(w)
    \/ \E w \in Workers : StartCollect(w)
    \/ \E w \in Workers, u \in Urls : Discover(w, u)
    \/ \E w \in Workers : CollectOk(w)
    \/ \E w \in Workers : NextItemPC(w)
    \/ \E T \in Thresholds : CleanupOnExit(T)
    \/ SweepUpdate

SpecStartup == Init /\ [][NextStartup]_vars

\* C31: a worker that has left the top of its first loop round, by leasing a
\* batch or by exiting, has invoked the stuck-lease sweep
C31_WorkersSweep ==
    \A w \in Workers : pc[w] # "start" => w \in swept

\* ------------------------------------------------------------- robots.txt sections
\* a robots.txt is the sequence of its lines, stripped; a line is a directive
\* with its value, or a line _parse_robots_txt passes over (empty, a comment,
\* one without a colon); values are whole words here
DefaultUserAgent == "WorldMapper/1.0 (compatible)"
UserAgents == {DefaultUserAgent, lower(DefaultUserAgent)}
AgentValues == {DefaultUserAgent, "*", "otherbot"}
LineRules == {[directive |-> "disallow", value |-> "/"],
              [directive |-> "disallow", value |-> "/a"],
              [directive |-> "allow", value |-> "/a"]}
Lines == {[directive |-> "user-agent", value |-> a] : a \in AgentValues}
         \cup LineRules
         \cup {[directive |-> "sitemap", value |-> "s"], [directive |-> "#", value |-> "c"]}
Contents == UNION {[1..n -> Lines] : n \in 0..MaxLines}

\* dict.get(key, []) and dict.setdefault(key, []) on a dict of lists
rules_get(rules, agent) == IF agent \in DOMAIN rules THEN rules[agent] ELSE <<>>
setdefault(rules, agent) ==
    [a \in DOMAIN rules \cup {agent} |-> rules_get(rules, a)]

\* for agent in current_agents: rules.setdefault(agent, []).append(rule)
RECURSIVE AppendRule(_, _, _, _)
AppendRule(rules, current_agents, k, rule) ==
    IF k > Len(current_agents) THEN rules
    ELSE AppendRule([setdefault(rules, current_agents[k]) EXCEPT
                        ![current_agents[k]] = Append(@, rule)],
                    current_agents, k + 1, rule)

\* the for loop of _parse_robots_txt from line k on
RECURSIVE ParseLoop(_, _, _, _)
ParseLoop(content, k, rules, current_agents) ==
    IF k > Len(content) THEN rules
    ELSE LET line == content[k]
         IN IF line.directive = "#"
            THEN ParseLoop(content, k + 1, rules, current_agents)
            ELSE IF line.directive = "user-agent"
            THEN ParseLoop(content, k + 1, setdefault(rules, lower(line.value)),
                           Append(current_agents, lower(line.value)))
            ELSE IF line.directive \in {"disallow", "allow"}
            THEN ParseLoop(content, k + 1,
                           AppendRule(rules, current_agents, 1,
                                      [type |-> line.directive, value |-> line.value]),
                           current_agents)
            ELSE ParseLoop(content, k + 1, rules, <<>>)

\* _parse_robots_txt: user-agent, lower-cased -> list of rules
parse_robots_txt(content) == ParseLoop(content, 1, [a \in {} |-> <<>>], <<>>)

\* _check_robots_txt: rules.get(ua, []) + rules.get('*', [])
matched_rules(rules, ua) == rules_get(rules, ua) \o rules_get(rules, "*")

\* _check_robots_txt parses the content of the response
ParseRobotsTxt ==
    /\ robots.stage = "content"
    /\ web' = [web EXCEPT !.robots.stage = "parsed",
                          !.robots.rules = parse_robots_txt(robots.content)]
    /\ RobotsFrame

\* _check_robots_txt selects the rules of the crawler
MatchRules ==
    /\ robots.stage = "parsed"
    /\ web' = [web EXCEPT !.robots.stage = "matched",
                          !.robots.matched_rules = matched_rules(robots.rules, robots.ua)]
    /\ RobotsFrame

InitParse ==
    /\ InitQueue
    /\ web \in {[NoWeb(DefaultMaxUrlsPerDomain, DefaultMaxLinksPerPage) EXCEPT
                    !.robots = [stage |-> "content", content |-> c, ua |-> u,
                                rules |-> [a \in {} |-> <<>>], matched_rules |-> <<>>]] :
                   c \in Contents, u \in UserAgents}

NextParse ==
    \/ ParseRobotsTxt
    \/ MatchRules

\* the robots.txt parser applied to every content up to the bounds
SpecParse == InitParse /\ [][NextParse]_vars

\* the reference reading of a robots.txt: a group is a run of user-agent lines
\* followed by its rules; a user-agent line after a rule, and any other
\* directive, ends the group.  GroupAgents is the state of that reading before
\* line k: the agents of the open group and whether it has a rule
RECURSIVE GroupAt(_, _)
GroupAt(content, k) ==
    IF k = 1 THEN [agents |-> {}, has_rule |-> FALSE]
    ELSE LET g == GroupAt(content, k - 1)
             line == content[k - 1]
         IN IF line.directive = "#" THEN g
            ELSE IF line.directive = "user-agent"
            THEN [agents |-> (IF g.has_rule THEN {} ELSE g.agents) \cup {lower(line.value)},
                  has_rule |-> FALSE]
            ELSE IF line.directive \in {"disallow", "allow"}
            THEN [g EXCEPT !.has_rule = TRUE]
            ELSE [agents |-> {}, has_rule |-> FALSE]

IsRule(line) == line.directive \in {"disallow", "allow"}

\* the rules the content lists under the agent, names compared without case
Listed(content, agent) ==
    {[type |-> content[k].directive, value |-> content[k].value] :
        k \in {j \in 1..Len(content) :
                  IsRule(content[j]) /\ lower(agent) \in GroupAt(content, j).agents}}

\* C32: the rules _check_robots_txt evaluates are the rules listed under the
\* configured user agent together with the rules listed under *
C32_RulesOfUserAgentAndStar ==
    robots.stage = "matched" =>
        Range(robots.matched_rules) =
            Listed(robots.content, robots.ua) \cup Listed(robots.content, "*")

\* C40: _parse_robots_txt attributes a rule only to the user agents named in
\* the user-agent lines of the rule's own group
C40_RuleAttributedToOwnGroup ==
    robots.stage \in {"parsed", "matched"} =>
        \A a \in DOMAIN robots.rules :
            Range(robots.rules[a]) \subseteq Listed(robots.content, a)

\* ------------------------------------------------------------- crawl depth
\* both workers on seeded URLs, every collection returning normally
NextDepth ==
    \/ \E u \in Urls : AddSeed(u)
    \/ \E w \in Workers : LeaseSelect(w, Limit(w))
    \/ \E w \in Workers : LeaseCommit(w)
    \/ \E w \in Workers : FinishBatch(w)
    \/ \E w \in Workers : SkipDepthQP(w)
    \/ \E w \in Workers : SkipDepthPC(w)
    \/ \E w \in Workers : StartCollect(w)
    \/ \E w \in Workers, u \in Urls : Discover(w, u)
    \/ \E w \in Workers : CollectOk(w)
    \/ \E w \in Workers : NextItemPC(w)

SpecDepth == Init /\ [][NextDepth]_vars

\* row i of the next state was created by worker w while it processes its
\* current entry
CreatedBy(w, i) ==
    /\ pc[w] = "collecting"
    /\ queue'[i].depth = Cur(w).depth + 1
    /\ queue'[i].depth <= MaxDepthOf(w) + 1
    /\ queue'[i].priority = 1

\* C33: a queue row created while a leased entry e is processed has depth
\* e.depth + 1, at most max depth + 1, and priority 1; an entry whose page is
\* fetched has depth at most max depth
C33_DiscoveredOneDeeper ==
    [][/\ \A i \in Ids(queue') \ Ids(queue) :
             \/ \E u \in Urls : AddSeed(u)
             \/ \E w \in Workers : CreatedBy(w, i)
       /\ \A w \in Workers :
             pc'[w] = "collecting" => batch'[w][idx'[w]].depth <= MaxDepthOf(w)]_vars

\* a row one level below a seed was created by a collection
C33_RowAtDepthOne ==
    \E i \in Ids(queue) : queue[i].depth = 1 /\ queue[i].priority = 1

\* C34: the history of a domain counts the entries of the domain, of distinct
\* URLs, that were processed successfully: each of them wrote its own row,
\* keyed by its URL
C34_HistoryRowPerProcessedUrl ==
    \A u \in CapUrls :
        get_domain_processing_count(history, domain_name(u)) >= Cardinality(Processed(u))

\* C35: the page requested for the link extraction of a leased entry is the
\* page of the entry's URL
C35_FetchesEntryUrl ==
    (pc[QP] = "collecting" /\ page.stage \in {"internal", "external", "return"}
        /\ page.requested # NoRequest)
       => page.requested = urlparse(Cur(QP).url)

\* ------------------------------------------------------------- interruption
\* process_queue, except KeyboardInterrupt: one UPDATE of every row in
\* processing, then the function returns.  The exception reaches this handler
\* from any point of the loop when process_queue runs under Python's default
\* SIGINT handler (queue_processor.py replaces that handler and asks for a
\* cooperative shutdown instead).
interrupted_rows(q) ==
    [i \in Ids(q) |-> IF q[i].status = "processing"
                      THEN mark_queue_item_interrupted(q, i)[i]
                      ELSE q[i]]

InterruptHandler(w) ==
    /\ w = QP
    /\ pc[w] \in {"start", "loop", "collecting"}
    /\ \A i \in Ids(queue) : queue[i].status = "processing" => ~LockedByOther(w, i)
    /\ queue' = interrupted_rows(queue)
    /\ returns' = Returns(queue', queue, returns)
    /\ pc' = [pc EXCEPT ![w] = "done"]
    /\ batch' = [batch EXCEPT ![w] = <<>>]
    /\ idx' = [idx EXCEPT ![w] = 1]
    /\ last' = NoOp
    /\ UNCHANGED enq
    /\ WorkerFrame

\* cleanup_stuck_queue_db.py, cleanup_stuck_items: SELECT every row in
\* processing, of any age; none: nothing to do.  Its UPDATE is SweepUpdate
CleanupStuckItems ==
    /\ UNCHANGED pageVars
    /\ swpc = "idle"
    /\ UNCHANGED <<queue, clock, pc, sel, batch, idx, shutdown_requested,
                   returns, enq>>
    /\ LET stuck_items_found == {i \in Ids(queue) : queue[i].status = "processing"}
       IN IF stuck_items_found = {}
          THEN /\ last' = NoOp
               /\ UNCHANGED <<swpc, stuck, sweeps>>
          ELSE /\ sweeps < MaxSweeps
               /\ sweeps' = sweeps + 1
               /\ swpc' = "selected"
               /\ stuck' = stuck_items_found
               /\ last' = NoOp

NextInterrupt ==
    \/ \E u \in Urls : AddSeed(u)
    \/ \E w \in Workers : LeaseSelect(w, Limit(w))
    \/ \E w \in Workers : LeaseCommit(w)
    \/ \E w \in Workers : FinishBatch(w)
    \/ \E w \in Workers : SkipDepthQP(w)
    \/ \E w \in Workers : SkipDepthPC(w)
    \/ \E w \in Workers : StartCollect(w)
    \/ \E w \in Workers, u \in Urls : Discover(w, u)
    \/ \E w \in Workers : CollectOk(w)
    \/ \E w \in Workers : CollectError(w)
    \/ \E w \in Workers : NextItemPC(w)
    \/ \E w \in Workers : InterruptHandler(w)
    \/ CleanupStuckItems
    \/ SweepUpdate

\* the two workers, an interruption of process_queue and the cleanup script
SpecInterrupt == Init /\ [][NextInterrupt]_vars

\* worker w handles an interruption of its queue processing
HandlesInterruption(w) == pc[w] \in {"start", "loop", "collecting"} /\ pc'[w] = "done"

\* C39: the worker that handles an interruption of its queue processing
\* returns to pending only entries it leased itself; an entry in processing
\* under another worker's lease keeps its status and its lease start
C39_InterruptResetsOwnLeases ==
    [][\A w \in Workers :
          HandlesInterruption(w) =>
             \A o \in Workers \ {w} : \A i \in Ids(queue) :
                LeasedBy(o, i) =>
                   /\ queue'[i].status = queue[i].status
                   /\ queue'[i].processed_at = queue[i].processed_at]_vars

\* C36: a row in pending has no processed_at and a row in processing has one,
\* the start of its lease
C36_ProcessedAtFollowsStatus ==
    \A i \in Ids(queue) :
        /\ queue[i].status = "pending" => queue[i].processed_at = NULL
        /\ queue[i].status = "processing" => queue[i].processed_at # NULL

\* one row is leased while another, leased before, is back in pending
C36_LeasedNextToReturned ==
    \E i, j \in Ids(queue) :
        /\ queue[i].status = "processing"
        /\ queue[j].status = "pending" /\ queue[j].error_message # "NULL"

\* C38: for the entry a worker has leased and is at, no other row of the
\* queue, pending or processing, has the entry's URL: the test for which
\* process_queue marks an entry skipped as already in the queue is false
C38_NoOtherRowOfLeasedUrl ==
    \A w \in Workers :
        (pc[w] = "collecting" \/ InLoop(w)) =>
            ~is_url_in_queue_excl(queue, Cur(w).url, Cur(w).id)

\* process_queue is at a leased entry while another row is in the queue
C38_AtEntryWithOtherRows ==
    /\ InLoop(QP)
    /\ \E i \in Ids(queue) : i # Cur(QP).id /\ queue[i].status \in {"pending", "processing"}

\* ------------------------------------------------------------- one run to its end
\* the queue a process_queue run finds: rows of distinct URLs, each pending,
\* completed by an earlier run, or in processing under a lease an earlier
\* instance never marked
StartStatuses == {"pending", "completed", "processing"}
StartRow(u, d, s) ==
    [NewRow(u, d, 1, 0) EXCEPT !.status = s,
                               !.processed_at = IF s = "pending" THEN NULL ELSE 0]
StartQueues ==
    {<<>>}
    \cup {<<StartRow(u, d, s)>> : u \in Urls, d \in Depths, s \in StartStatuses}
    \cup {<<StartRow(uv[1], d, s), StartRow(uv[2], e, r)>> :
              uv \in {x \in Urls \X Urls : x[1] # x[2]}, d \in Depths, e \in Depths,
              s \in StartStatuses, r \in StartStatuses}

InitTerminate ==
    /\ queue \in StartQueues
    /\ clock = 0
    /\ pc = [w \in Workers |-> "start"]
    /\ sel = [w \in Workers |-> <<>>]
    /\ batch = [w \in Workers |-> <<>>]
    /\ idx = [w \in Workers |-> 1]
    /\ shutdown_requested = [w \in Workers |-> FALSE]
    /\ swpc = "idle"
    /\ stuck = {}
    /\ sweeps = 0
    /\ returns = [i \in Ids(queue) |-> <<>>]
    /\ enq = [u \in Urls |-> [maxp |-> 0, mind |-> 0]]
    /\ last = NoOp
    /\ web = NoWeb(DefaultMaxUrlsPerDomain, DefaultMaxLinksPerPage)

\* process_queue alone: no other worker, no sweep, no signal, no new seed
NextTerminate ==
    \/ LeaseSelect(QP, max_items)
    \/ LeaseCommit(QP)
    \/ FinishBatch(QP)
    \/ SkipDepthQP(QP)
    \/ StartCollect(QP)
    \/ \E u \in Urls : Discover(QP, u)
    \/ CollectOk(QP)
    \/ CollectError(QP)

SpecTerminate == InitTerminate /\ [][NextTerminate]_vars

\* the run is one sequential program: while it has a next statement it
\* executes one
FairTerminate == SpecTerminate /\ WF_vars(NextTerminate)

\* no row goes back to pending: with leases taken from pending rows only, a
\* row is leased at most once
NeverBackToPending ==
    \A i \in Ids(queue) : queue'[i].status = "pending" => queue[i].status = "pending"

\* the run has returned
Terminated == pc[QP] = "done"

====
